---- MODULE Spec2Model ----
(***************************************************************************)
(* Shrimp-search: document cache (EnhancedDocumentManager), vector index   *)
(* (EnhancedVectorRetriever), knowledge base (EnhancedRAGSystem) and RRF   *)
(* fusion, modelled as state machines.                                     *)
(*                                                                         *)
(* Strings of the program are sequences of tokens: a token is the text of  *)
(* a non-empty line, or "NL" for one newline character.  A file content    *)
(* is kept as the list of its lines (what content.split('\n') returns).    *)
(***************************************************************************)
EXTENDS Integers, Sequences, FiniteSets, Bags, TLC

(* ---------------- bounds of the model ---------------- *)
MaxClock == 2
MaxFileOps == 1
MaxCacheBytes == 8
MaxIndexLen == 6
MaxKbOps == 3
MaxRank == 3
MaxLists == 2
MaxFusions == 2
MaxBatches == 1
MaxRaceAdds == 2
MaxQueryRows == 3
MaxTopK == 2
MaxRegistryOps == 1
\* LLMConfig.max_retries of the V1 interface: 0 to MaxRetries (the default is 3)
MaxRetries == 3
\* searches started on the API server
MaxSearches == 2
\* deep retrievals started while the knowledge base is changed
MaxDeepRuns == 1

(* ---------------- files and their contents ---------------- *)
Paths == {"a.txt", "b.txt", "a.md"}

\* the source file that gets rewritten, touched or deleted while the cache is in use
EditedPaths == {"a.txt"}

FileContents == 1..3

\* the lines of each file content, as content.split('\n') lists them
Lines(c) ==
  CASE c = 1 -> <<"#T", "", "x">>
    [] c = 2 -> <<"x", "", "y", "", "z">>
    [] c = 3 -> <<"#T", "x", "#U", "y">>
    [] c = 4 -> <<"h", "r">>

\* '\n'.join(lines): a newline between consecutive lines, empty lines add no text
RECURSIVE JoinNL(_)
JoinNL(lines) ==
  IF lines = <<>> THEN <<>>
  ELSE LET n == Len(lines)
           last == IF lines[n] = "" THEN <<>> ELSE <<lines[n]>>
       IN IF n = 1 THEN last
          ELSE JoinNL(SubSeq(lines, 1, n - 1)) \o <<"NL">> \o last

\* os.stat(path).st_size
FileSize(c) == Len(JoinNL(Lines(c)))

\* Path(file_path).suffix.lower()
Suffix(p) ==
  CASE p = "a.txt" -> ".txt"
    [] p = "b.txt" -> ".txt"
    [] p = "a.md" -> ".md"
    [] p = "t.csv" -> ".csv"
    [] OTHER -> ""

\* the extensions of supported_formats that the model's paths use
supported_formats == {".txt", ".md", ".csv"}

\* hashlib.md5 of the file bytes; 0 stands for the "" returned when reading fails
get_file_hash(c, ok) == IF ok THEN c ELSE 0

(* ---------------- chunks and the format parsers ---------------- *)
create_chunk(content, metadata, chunk_type) ==
  [chunk_id |-> <<"md5", content>>, content |-> content,
   metadata |-> metadata, chunk_type |-> chunk_type]

\* str.split('\n\n'): greedy, left to right
RECURSIVE SplitParagraphs(_, _, _, _)
SplitParagraphs(s, i, cur, out) ==
  IF i > Len(s) THEN Append(out, cur)
  ELSE IF i < Len(s) /\ s[i] = "NL" /\ s[i + 1] = "NL"
       THEN SplitParagraphs(s, i + 2, <<>>, Append(out, cur))
       ELSE SplitParagraphs(s, i + 1, Append(cur, s[i]), out)

\* paragraph.strip() is non-empty
NonBlank(s) == \E i \in 1..Len(s) : s[i] # "NL"

RECURSIVE TxtChunks(_, _, _)
TxtChunks(paragraphs, i, p) ==
  IF i > Len(paragraphs) THEN <<>>
  ELSE (IF NonBlank(paragraphs[i])
        THEN <<create_chunk(paragraphs[i],
                 [paragraph |-> i, source |-> p, type |-> "text"], "text")>>
        ELSE <<>>) \o TxtChunks(paragraphs, i + 1, p)

process_txt(p, c) ==
  TxtChunks(SplitParagraphs(JoinNL(Lines(c)), 1, <<>>, <<>>), 1, p)

\* line.startswith('#')
IsHeading(line) == line \in {"#T", "#U"}

MdChunk(section, p) ==
  create_chunk(JoinNL(section),
               [section_level |-> IF IsHeading(section[1]) THEN 1 ELSE 0,
                source |-> p, type |-> "text"], "text")

RECURSIVE MdSections(_, _, _, _)
MdSections(lines, i, current_section, p) ==
  IF i > Len(lines)
  THEN IF current_section # <<>> THEN <<MdChunk(current_section, p)>> ELSE <<>>
  ELSE IF IsHeading(lines[i])
       THEN (IF current_section # <<>> THEN <<MdChunk(current_section, p)>> ELSE <<>>)
            \o MdSections(lines, i + 1, <<lines[i]>>, p)
       ELSE MdSections(lines, i + 1, Append(current_section, lines[i]), p)

process_markdown(p, c) == MdSections(Lines(c), 1, <<>>, p)

\* processor = self.supported_formats[file_ext]; chunks = processor(file_path)
\* _process_csv: the whole table as one chunk (the files here have under 100 rows);
\* the first line of a CSV file is the header
process_csv(p, c) ==
  <<create_chunk(JoinNL(Lines(c)),
                 [rows |-> Len(Lines(c)) - 1, columns |-> 1, source |-> p,
                  type |-> "table"], "table")>>

Processor(p, c) ==
  CASE Suffix(p) = ".md" -> process_markdown(p, c)
    [] Suffix(p) = ".csv" -> process_csv(p, c)
    [] OTHER -> process_txt(p, c)


(* ---------------- state ---------------- *)
VARIABLES
  files,                  \* the file system: path -> [exists, content, mtime]
  clock,                  \* time source of file and blob modification times
  file_ops,               \* number of changes made to the source files so far
  enable_cache,           \* EnhancedDocumentManager.enable_cache
  document_index,         \* EnhancedDocumentManager.document_index (a dict)
  chunk_blobs,            \* cache_dir/chunks/<hash>.pkl: hash -> [data, mtime]
  last_call,              \* outcome of the last document-manager call
  saved_chunks,           \* per path, the chunks of its last save not yet evicted or cleared
  documents,              \* EnhancedVectorRetriever.documents
  doc_metadata,           \* EnhancedVectorRetriever.doc_metadata
  document_ids,           \* EnhancedVectorRetriever.document_ids
  doc_embeddings,         \* EnhancedVectorRetriever.doc_embeddings (<<>> is None)
  knowledge_base_initialized,
  current_sources,        \* EnhancedRAGSystem.current_sources
  document_chunks_store,  \* EnhancedRAGSystem.document_chunks_store (a dict)
  vi_call,                \* outcome of the last direct add_documents call
  kb_call,                \* outcome of the last knowledge-base call
  kb_all_ok,              \* no knowledge-base call has failed so far
  kb_ops,                 \* number of knowledge-base calls made so far
  readd,                  \* bookkeeping of a remove([X]) followed by add([X])
  rrf_input,              \* the result lists handed to _rrf_fusion
  rrf_output,             \* what _rrf_fusion returned for rrf_input
  workers,                \* the pool threads of batch_process_documents
  index_file,             \* cache_dir/document_index.json
  batches,                \* number of batch_process_documents calls so far
  adder,                  \* the thread inside add_documents, or idle
  reader,                 \* the thread inside query, or idle
  query_result,           \* the last call of query: its arguments and result
  llm,                    \* EnhancedLLMInterfaceV2 with its ModelManager and Ollama client
  llm_call,               \* the last call made on the LLM interface and what it returned
  mode_call,              \* the last enhanced_query call: what it did and returned
  llm_v1,                 \* EnhancedLLMInterface (V1): its config and camel_available
  v1_call,                \* the last call that used the V1 interface and what it returned
  search_tasks,           \* api_server_v2.search_tasks: search id -> SearchTask
  search_results,         \* api_server_v2.search_results: search id -> formatted result
  search_threads,         \* the background threads of execute_search_task, by search id
  request,                \* the results request in flight and the response it got
  deep                    \* the thread inside _deep_retrieval, or idle

dmVars == <<enable_cache, document_index, chunk_blobs, last_call, saved_chunks>>
fsVars == <<files, clock, file_ops>>
viVars == <<documents, doc_metadata, document_ids, doc_embeddings, vi_call>>
kbVars == <<knowledge_base_initialized, current_sources, document_chunks_store,
            kb_call, kb_all_ok, kb_ops, readd>>
rrfVars == <<rrf_input, rrf_output>>
threadVars == <<workers, index_file, batches>>
raceVars == <<adder, reader>>
llmVars == <<llm, llm_call>>
v1Vars == <<llm_v1, v1_call>>
serverVars == <<search_tasks, search_results, search_threads, request>>
serviceVars == <<v1Vars, serverVars, deep>>
programVars == <<fsVars, dmVars, viVars, kbVars, rrfVars, threadVars, raceVars,
                 query_result>>
vars == <<files, clock, file_ops, enable_cache, document_index, chunk_blobs, last_call,
          saved_chunks, documents, doc_metadata, document_ids, doc_embeddings,
          vi_call, knowledge_base_initialized, current_sources,
          document_chunks_store, kb_call, kb_all_ok, kb_ops, readd, rrf_input,
          rrf_output,
          workers, index_file, batches, adder, reader, query_result, llm, llm_call, mode_call,
          serviceVars>>

(* ---------------- dictionaries ---------------- *)
Put(d, k, v) == [x \in (DOMAIN d) \cup {k} |-> IF x = k THEN v ELSE d[x]]
Del(d, k) == [x \in (DOMAIN d) \ {k} |-> d[x]]
EmptyDict == [x \in {} |-> 0]

(* ---------------- EnhancedDocumentManager ---------------- *)
\* the manager's cache state as one value: dm = [index, blobs, clock, max_cache_size]
DM == [index |-> document_index, blobs |-> chunk_blobs, clock |-> clock,
       max_cache_size |-> MaxCacheBytes]

\* asdict(chunk) and DocumentChunk(**chunk): the pickled form of a chunk
asdict(chunk) ==
  <<chunk.chunk_id, chunk.content, chunk.metadata, "None", chunk.chunk_type>>
DocumentChunk(data) ==
  [chunk_id |-> data[1], content |-> data[2], metadata |-> data[3],
   chunk_type |-> data[5]]

\* size of the pickle file of a chunk list
RECURSIVE BlobSize(_)
BlobSize(data) ==
  IF data = <<>> THEN 1
  ELSE 1 + Len(data[1][2]) + BlobSize(Tail(data))

\* a cache check that compares the modification time only
is_document_cached_mtime_only(dm, fs, enabled, p) ==
  IF ~enabled \/ p \notin DOMAIN dm.index THEN FALSE
  ELSE IF ~fs[p].exists THEN FALSE
  ELSE IF fs[p].mtime # dm.index[p].last_modified THEN FALSE
  ELSE dm.index[p].file_hash \in DOMAIN dm.blobs

is_document_cached(dm, fs, enabled, p) ==
  IF ~enabled \/ p \notin DOMAIN dm.index THEN FALSE
  ELSE IF ~fs[p].exists THEN FALSE
  ELSE IF fs[p].mtime # dm.index[p].last_modified
          \/ FileSize(fs[p].content) # dm.index[p].file_size THEN FALSE
  ELSE dm.index[p].file_hash \in DOMAIN dm.blobs

\* pickle.load succeeds on this path's blob file
BlobLoads(dm, p) ==
  /\ p \in DOMAIN dm.index
  /\ dm.index[p].file_hash \in DOMAIN dm.blobs
  /\ dm.blobs[dm.index[p].file_hash].readable

\* the blob file of this path exists and pickle.load raises on it
BlobUnreadable(dm, p) ==
  /\ p \in DOMAIN dm.index
  /\ dm.index[p].file_hash \in DOMAIN dm.blobs
  /\ ~dm.blobs[dm.index[p].file_hash].readable

load_cached_chunks(dm, p) ==
  IF BlobLoads(dm, p)
  THEN LET data == dm.blobs[dm.index[p].file_hash].data
       IN [i \in 1..Len(data) |-> DocumentChunk(data[i])]
  ELSE <<>>

save_chunks_to_cache(dm, enabled, p, chunks, metadata) ==
  IF ~enabled THEN dm
  ELSE [dm EXCEPT
          !.index = Put(dm.index, p, metadata),
          !.blobs = Put(dm.blobs, metadata.file_hash,
                        [data |-> [i \in 1..Len(chunks) |-> asdict(chunks[i])],
                         mtime |-> dm.clock + 1, readable |-> TRUE]),
          !.clock = dm.clock + 1]

TotalSize(blobs) ==
  LET RECURSIVE Sum(_)
      Sum(S) == IF S = {} THEN 0
                ELSE LET h == CHOOSE x \in S : TRUE
                     IN BlobSize(blobs[h].data) + Sum(S \ {h})
  IN Sum(DOMAIN blobs)

\* the blob files in ascending modification time: cache_files.sort(key=mtime)
Oldest(blobs) ==
  CHOOSE h \in DOMAIN blobs : \A g \in DOMAIN blobs : blobs[h].mtime <= blobs[g].mtime

RECURSIVE CleanLoop(_, _, _)
CleanLoop(blobs, total_size, max_cache_size) ==
  IF total_size <= max_cache_size \/ DOMAIN blobs = {} THEN blobs
  ELSE LET h == Oldest(blobs)
       IN CleanLoop(Del(blobs, h), total_size - BlobSize(blobs[h].data),
                    max_cache_size)

clean_cache(dm, enabled) ==
  IF ~enabled THEN dm
  ELSE [dm EXCEPT !.blobs = CleanLoop(dm.blobs, TotalSize(dm.blobs),
                                      dm.max_cache_size)]

\* DocumentMetadata(...) as process_document builds it
MakeMetadata(fs, p, chunks, hash_ok) ==
  [file_path |-> p,
   file_hash |-> get_file_hash(fs[p].content, hash_ok),
   file_size |-> FileSize(fs[p].content),
   last_modified |-> fs[p].mtime,
   chunk_count |-> Len(chunks),
   format_type |-> Suffix(p)]

\* the blob files that _clean_cache unlinked, with their modification times
Unlinked(before, after) ==
  {[hash |-> h, mtime |-> before[h].mtime] : h \in (DOMAIN before) \ (DOMAIN after)}

\* process_document: [dm, outcome, chunks, parsed, evicted]
process_document(dm, fs, enabled, p, force_reprocess, hash_ok) ==
  IF ~fs[p].exists
  THEN [dm |-> dm, outcome |-> "FileNotFoundError", chunks |-> <<>>, parsed |-> FALSE,
        evicted |-> {}]
  ELSE IF ~force_reprocess /\ is_document_cached(dm, fs, enabled, p)
  THEN [dm |-> dm, outcome |-> "cached", chunks |-> load_cached_chunks(dm, p),
        parsed |-> FALSE,
        evicted |-> {}]
  ELSE IF Suffix(p) \notin supported_formats
  THEN [dm |-> dm, outcome |-> "ValueError", chunks |-> <<>>, parsed |-> FALSE,
        evicted |-> {}]
  ELSE LET chunks == Processor(p, fs[p].content)
           metadata == MakeMetadata(fs, p, chunks, hash_ok)
           saved == save_chunks_to_cache(dm, enabled, p, chunks, metadata)
           cleaned == clean_cache(saved, enabled)
       IN [dm |-> cleaned, outcome |-> "processed", chunks |-> chunks,
           parsed |-> TRUE, evicted |-> Unlinked(saved.blobs, cleaned.blobs)]

\* _process_document_optimized: the same without the final _clean_cache
process_document_optimized(dm, fs, enabled, p, force_reprocess, hash_ok) ==
  IF ~force_reprocess /\ is_document_cached(dm, fs, enabled, p)
  THEN [dm |-> dm, outcome |-> "cached", chunks |-> load_cached_chunks(dm, p),
        parsed |-> FALSE,
        evicted |-> {}]
  ELSE IF ~fs[p].exists
  THEN [dm |-> dm, outcome |-> "FileNotFoundError", chunks |-> <<>>, parsed |-> FALSE,
        evicted |-> {}]
  ELSE IF Suffix(p) \notin supported_formats
  THEN [dm |-> dm, outcome |-> "ValueError", chunks |-> <<>>, parsed |-> FALSE,
        evicted |-> {}]
  ELSE LET chunks == Processor(p, fs[p].content)
           metadata == MakeMetadata(fs, p, chunks, hash_ok)
       IN [dm |-> save_chunks_to_cache(dm, enabled, p, chunks, metadata),
           outcome |-> "processed", chunks |-> chunks, parsed |-> TRUE,
           evicted |-> {}]

\* clear_cache(file_path)
clear_cache(dm, p) ==
  IF p \in DOMAIN dm.index
  THEN [dm EXCEPT !.blobs = Del(dm.blobs, dm.index[p].file_hash),
                  !.index = Del(dm.index, p)]
  ELSE dm

\* clear_cache(): the whole cache directory is recreated empty
clear_all_cache(dm) == [dm EXCEPT !.blobs = EmptyDict, !.index = EmptyDict]


\* batch_process_documents: the workers' _process_document_optimized calls,
\* taken in the order in which they run
RECURSIVE BatchRun(_, _, _, _, _, _)
BatchRun(dm, fs, enabled, file_paths, force_reprocess, hash_fail) ==
  IF file_paths = <<>> THEN [dm |-> dm, results |-> EmptyDict, parsed |-> {}]
  ELSE LET p == Head(file_paths)
           r == process_document_optimized(dm, fs, enabled, p, force_reprocess,
                                           p \notin hash_fail)
           rest == BatchRun(r.dm, fs, enabled, Tail(file_paths), force_reprocess,
                            hash_fail)
       IN [dm |-> rest.dm,
           results |-> IF p \in DOMAIN rest.results THEN rest.results
                       ELSE Put(rest.results, p, r.chunks),
           parsed |-> rest.parsed \cup (IF r.parsed THEN {p} ELSE {})]

(* ---------------- EnhancedVectorRetriever ---------------- *)
\* the retriever's four containers as one value
VI == [documents |-> documents, doc_metadata |-> doc_metadata,
       document_ids |-> document_ids, doc_embeddings |-> doc_embeddings]

\* EnhancedVectorRetriever(...): a new, empty retriever
NewRetriever == [documents |-> <<>>, doc_metadata |-> <<>>,
                 document_ids |-> <<>>, doc_embeddings |-> <<>>]

\* embedding_model.encode(texts): one row per text, the same row for the same text
Encode(texts) == [i \in 1..Len(texts) |-> <<"vec", texts[i]>>]

\* f"doc_{n}"
DocId(n) == "doc_" \o ToString(n)

\* add_documents / _add_documents_impl: [vi, raised]
add_documents(vi, texts, metadata, encode_ok) ==
  IF texts = <<>> THEN [vi |-> vi, raised |-> FALSE]
  ELSE LET new_ids == [i \in 1..Len(texts) |-> DocId(Len(vi.documents) + i - 1)]
           stored == [vi EXCEPT !.documents = vi.documents \o texts,
                                !.doc_metadata = vi.doc_metadata \o metadata,
                                !.document_ids = vi.document_ids \o new_ids]
       IN IF ~encode_ok THEN [vi |-> stored, raised |-> TRUE]
          ELSE [vi |-> [stored EXCEPT !.doc_embeddings =
                                         vi.doc_embeddings \o Encode(texts)],
                raised |-> FALSE]

(* ---------------- EnhancedVectorRetriever.query ---------------- *)
\* The embedding model is represented by sim_of: the cosine similarity between
\* the query and the embedding of each text.  Rows are numbered from 1, the
\* ids keep the program's numbering from 0.
Similarities(vi, sim_of) ==
  [i \in 1..Len(vi.doc_embeddings) |-> sim_of[vi.doc_embeddings[i][2]]]

\* the row np.argsort(similarities)[::-1] puts first among the given rows; the
\* order of rows with equal similarity depends on the sort numpy uses
FirstRow(similarities, rows, ties_high_row_first) ==
  CHOOSE i \in rows :
    \A j \in rows \ {i} :
      \/ similarities[i] > similarities[j]
      \/ /\ similarities[i] = similarities[j]
         /\ IF ties_high_row_first THEN i > j ELSE i < j

RECURSIVE ArgsortDesc(_, _, _)
ArgsortDesc(similarities, rows, ties_high_row_first) ==
  IF rows = {} THEN <<>>
  ELSE LET i == FirstRow(similarities, rows, ties_high_row_first)
       IN <<i>> \o ArgsortDesc(similarities, rows \ {i}, ties_high_row_first)

\* top_indices = np.argsort(similarities)[::-1][:top_k * 2]
TopIndices(similarities, top_k, ties_high_row_first) ==
  LET order == ArgsortDesc(similarities, DOMAIN similarities, ties_high_row_first)
  IN SubSeq(order, 1, IF Len(order) < 2 * top_k THEN Len(order) ELSE 2 * top_k)

\* doc_type = self.doc_metadata[idx].get('type', 'unknown')
DocType(metadata) ==
  IF "type" \in DOMAIN metadata THEN metadata.type ELSE "unknown"

\* the dict appended for row idx
ResultEntry(vi, similarities, idx) ==
  [text |-> vi.documents[idx], similarity |-> similarities[idx],
   metadata |-> vi.doc_metadata[idx], id |-> vi.document_ids[idx]]

\* the loop over top_indices; filter_type "" is None
RECURSIVE CollectResults(_, _, _, _, _, _, _)
CollectResults(vi, similarities, top_indices, n, top_k, filter_type, results) ==
  IF n > Len(top_indices) THEN results
  ELSE IF top_indices[n] > Len(vi.documents)
  THEN CollectResults(vi, similarities, top_indices, n + 1, top_k, filter_type,
                      results)
  ELSE IF filter_type # "" /\ DocType(vi.doc_metadata[top_indices[n]]) # filter_type
  THEN CollectResults(vi, similarities, top_indices, n + 1, top_k, filter_type,
                      results)
  ELSE IF Len(results) + 1 >= top_k
  THEN Append(results, ResultEntry(vi, similarities, top_indices[n]))
  ELSE CollectResults(vi, similarities, top_indices, n + 1, top_k, filter_type,
                      Append(results, ResultEntry(vi, similarities, top_indices[n])))

\* query / _query_impl: the result list; an exception inside gives []
query(vi, sim_of, top_k, filter_type, ties_high_row_first, encode_ok) ==
  IF vi.documents = <<>> \/ vi.doc_embeddings = <<>> THEN <<>>
  ELSE IF ~encode_ok THEN <<>>
  ELSE CollectResults(vi, Similarities(vi, sim_of),
                      TopIndices(Similarities(vi, sim_of), top_k,
                                 ties_high_row_first),
                      1, top_k, filter_type, <<>>)

NoQuery == [called |-> FALSE, serial |-> 0, sim_of |-> EmptyDict, top_k |-> 0, filter_type |-> "",
            results |-> <<>>]

(* ---------------- EnhancedRAGSystem: the knowledge base ---------------- *)
\* EnhancedDocumentManager(cache_dir, enable_cache=True, max_cache_size_mb=1000)
RagCacheSize == 1000

\* the system's state as one value
KB == [vi |-> VI, dm |-> [DM EXCEPT !.max_cache_size = RagCacheSize],
       initialized |-> knowledge_base_initialized,
       sources |-> current_sources, store |-> document_chunks_store]

\* enhanced_metadata = chunk.metadata.copy(); enhanced_metadata.update({...})
EnhancedMetadata(chunk, source) ==
  [chunk_id |-> chunk.chunk_id, chunk_type |-> chunk.chunk_type,
   source_file |-> source] @@ chunk.metadata

ChunkTexts(chunks) == [i \in 1..Len(chunks) |-> chunks[i].content]
ChunkMetadata(chunks, source) ==
  [i \in 1..Len(chunks) |-> EnhancedMetadata(chunks[i], source)]

\* the per-source loop of setup and add: a source whose processing raises is skipped
\* a per-source loop in which a failing source discards what was collected
CollectSource_failing_source_discards(acc, source, r) ==
  IF r.outcome \in {"FileNotFoundError", "ValueError"}
  THEN [acc EXCEPT !.texts = <<>>, !.metadata = <<>>]
  ELSE [dm |-> r.dm,
        store |-> Put(acc.store, source, r.chunks),
        texts |-> acc.texts \o ChunkTexts(r.chunks),
        metadata |-> acc.metadata \o ChunkMetadata(r.chunks, source)]

\* one turn of the per-source loop, r being what process_document returned:
\* a source whose processing raises is skipped
CollectSource(acc, source, r) ==
  IF r.outcome \in {"FileNotFoundError", "ValueError"} THEN acc
  ELSE [dm |-> r.dm,
        store |-> Put(acc.store, source, r.chunks),
        texts |-> acc.texts \o ChunkTexts(r.chunks),
        metadata |-> acc.metadata \o ChunkMetadata(r.chunks, source)]

RECURSIVE ProcessSources(_, _, _, _, _, _)
ProcessSources(acc, fs, enabled, sources, i, force_reprocess) ==
  IF i > Len(sources) THEN acc
  ELSE CHOOSE out \in
         {ProcessSources(next, fs, enabled, sources, i + 1, force_reprocess) :
            next \in {CollectSource(acc, sources[i], r) :
                        r \in {process_document(acc.dm, fs, enabled, sources[i],
                                                force_reprocess, TRUE)}}} : TRUE

\* _setup_knowledge_base_impl: [kb, raised]
\* the part of setup after the per-source loop, done being the loop's result
EmbedSources(kb, sources, done, encode_ok) ==
  LET processed == [kb EXCEPT !.dm = done.dm, !.store = done.store]
      added == add_documents(kb.vi, done.texts, done.metadata, encode_ok)
  IN IF done.texts = <<>> THEN [kb |-> processed, raised |-> TRUE]
     ELSE IF added.raised
     THEN [kb |-> [processed EXCEPT !.vi = added.vi], raised |-> TRUE]
     ELSE [kb |-> [processed EXCEPT !.vi = added.vi, !.initialized = TRUE,
                                    !.sources = sources],
           raised |-> FALSE]

setup_knowledge_base(kb, fs, enabled, sources, force_reprocess, encode_ok) ==
  CHOOSE out \in
    {EmbedSources(kb, sources, done, encode_ok) :
       done \in {ProcessSources([dm |-> kb.dm, store |-> kb.store, texts |-> <<>>,
                                 metadata |-> <<>>],
                                fs, enabled, sources, 1, force_reprocess)}} : TRUE

InSeq(x, seq) == \E i \in 1..Len(seq) : seq[i] = x

\* a delta that keeps the sources that are tracked already
TrulyNew_unfiltered(new_sources, existing) == new_sources

\* [s for s in new_sources if s not in existing_sources]
RECURSIVE TrulyNew(_, _)
TrulyNew(new_sources, existing) ==
  IF new_sources = <<>> THEN <<>>
  ELSE (IF InSeq(Head(new_sources), existing) THEN <<>> ELSE <<Head(new_sources)>>)
       \o TrulyNew(Tail(new_sources), existing)

\* the part of add after the per-source loop, done being the loop's result
EmbedNewSources(kb, truly_new_sources, done, encode_ok) ==
  LET processed == [kb EXCEPT !.dm = done.dm, !.store = done.store]
      added == add_documents(kb.vi, done.texts, done.metadata, encode_ok)
  IN IF done.texts = <<>> THEN [kb |-> processed, ret |-> FALSE]
     ELSE IF added.raised
     THEN [kb |-> [processed EXCEPT !.vi = added.vi], ret |-> FALSE]
     ELSE [kb |-> [processed EXCEPT !.vi = added.vi,
                                    !.sources = kb.sources \o truly_new_sources],
           ret |-> TRUE]

\* setup's result as add returns it
SetupAsAdd(r) == [kb |-> r.kb, ret |-> ~r.raised]

AddTrulyNew(kb, fs, enabled, truly_new_sources, encode_ok) ==
  IF truly_new_sources = <<>> THEN [kb |-> kb, ret |-> TRUE]
  ELSE CHOOSE out \in
         {EmbedNewSources(kb, truly_new_sources, done, encode_ok) :
            done \in {ProcessSources([dm |-> kb.dm, store |-> kb.store,
                                      texts |-> <<>>, metadata |-> <<>>],
                                     fs, enabled, truly_new_sources, 1, FALSE)}} : TRUE

\* add_documents_to_knowledge_base: [kb, ret]
add_documents_to_knowledge_base(kb, fs, enabled, new_sources, encode_ok) ==
  IF ~kb.initialized
  THEN CHOOSE out \in
         {SetupAsAdd(r) :
            r \in {setup_knowledge_base(kb, fs, enabled, new_sources, FALSE,
                                        encode_ok)}} : TRUE
  ELSE CHOOSE out \in
         {AddTrulyNew(kb, fs, enabled, truly_new_sources, encode_ok) :
            truly_new_sources \in {TrulyNew(new_sources, kb.sources)}} : TRUE

\* list.remove(x): drops the first occurrence
RECURSIVE RemoveFirst(_, _)
RemoveFirst(seq, x) ==
  IF seq = <<>> THEN <<>>
  ELSE IF Head(seq) = x THEN Tail(seq)
  ELSE <<Head(seq)>> \o RemoveFirst(Tail(seq), x)

\* the loop of remove_documents_from_knowledge_base over sources_to_remove
RECURSIVE RemoveSources(_, _, _)
RemoveSources(acc, sources_to_remove, i) ==
  IF i > Len(sources_to_remove) THEN acc
  ELSE LET source == sources_to_remove[i]
       IN RemoveSources(
            IF InSeq(source, acc.kb.sources)
            THEN [kb |-> [acc.kb EXCEPT !.store = Del(acc.kb.store, source),
                                        !.sources = RemoveFirst(acc.kb.sources, source),
                                        !.dm = clear_cache(acc.kb.dm, source)],
                  removed_count |-> acc.removed_count + 1]
            ELSE acc,
            sources_to_remove, i + 1)

\* the chunks _rebuild_vector_index collects from the chunk store
RECURSIVE StoredEntries(_, _, _)
StoredEntries(sources, store, i) ==
  IF i > Len(sources) THEN [texts |-> <<>>, metadata |-> <<>>]
  ELSE LET rest == StoredEntries(sources, store, i + 1)
           source == sources[i]
       IN IF source \in DOMAIN store
          THEN [texts |-> ChunkTexts(store[source]) \o rest.texts,
                metadata |-> ChunkMetadata(store[source], source) \o rest.metadata]
          ELSE rest

\* _rebuild_vector_index: [vi, raised]
rebuild_vector_index(kb, encode_ok) ==
  LET all == StoredEntries(kb.sources, kb.store, 1)
  IN add_documents(NewRetriever, all.texts, all.metadata, encode_ok)

\* the replacement of the retriever by the rebuilt one
WithRebuilt(kb, rebuilt) == [kb |-> [kb EXCEPT !.vi = rebuilt.vi], ret |-> ~rebuilt.raised]

\* the part of remove after the loop, done being the loop's result
AfterRemoval(done, encode_ok) ==
  IF done.removed_count = 0 THEN [kb |-> done.kb, ret |-> FALSE]
  ELSE IF done.kb.sources # <<>>
  THEN CHOOSE out \in
         {WithRebuilt(done.kb, rebuilt) :
            rebuilt \in {rebuild_vector_index(done.kb, encode_ok)}} : TRUE
  ELSE [kb |-> [done.kb EXCEPT !.initialized = FALSE], ret |-> TRUE]

\* remove_documents_from_knowledge_base: [kb, ret]
remove_documents_from_knowledge_base(kb, sources_to_remove, encode_ok) ==
  CHOOSE out \in
    {AfterRemoval(done, encode_ok) :
       done \in {RemoveSources([kb |-> kb, removed_count |-> 0],
                               sources_to_remove, 1)}} : TRUE

(* ---------------- ModelManager ---------------- *)
\* the None that get_model_config returns instead of a (type, config) pair
None == <<>>

\* the fields of ModelConfig that decide what the interface does
ModelConfig(name, provider) == [name |-> name, provider |-> provider]

\* a dict of model_key -> ModelConfig keeps its insertion order: a sequence of items
HasKey(models, model_key) == \E i \in 1..Len(models) : models[i].key = model_key
Lookup(models, model_key) ==
  models[CHOOSE i \in 1..Len(models) : models[i].key = model_key].config
SetItem(models, model_key, config) ==
  IF HasKey(models, model_key)
  THEN [i \in 1..Len(models) |->
          IF models[i].key = model_key THEN [key |-> model_key, config |-> config]
          ELSE models[i]]
  ELSE Append(models, [key |-> model_key, config |-> config])
DelItem(models, model_key) == SelectSeq(models, LAMBDA item : item.key # model_key)

\* _initialize_models
initialize_models ==
  [remote |->
     <<[key |-> "qwen2.5-72b",
        config |-> ModelConfig("Qwen/Qwen2.5-72B-Instruct", "ModelScope")],
       [key |-> "qwen2.5-14b",
        config |-> ModelConfig("Qwen/Qwen2.5-14B-Instruct", "ModelScope")],
       [key |-> "qwen2.5-7b",
        config |-> ModelConfig("Qwen/Qwen2.5-7B-Instruct", "ModelScope")],
       [key |-> "glm4.5", config |-> ModelConfig("glm-4-plus", "GLM")]>>,
   local |->
     <<[key |-> "qwen2.5-7b-local", config |-> ModelConfig("qwen2.5:7b", "Ollama")],
       [key |-> "qwen2.5-14b-local", config |-> ModelConfig("qwen2.5:14b", "Ollama")]>>]

\* ModelManager.__init__
ModelManager ==
  [available_models |-> initialize_models, current_model_key |-> "",
   current_model_type |-> ""]

\* for model_type, models in self.available_models.items(): 'remote' comes first
get_model_config(available_models, model_key) ==
  IF HasKey(available_models.remote, model_key)
  THEN <<"remote", Lookup(available_models.remote, model_key)>>
  ELSE IF HasKey(available_models.local, model_key)
  THEN <<"local", Lookup(available_models.local, model_key)>>
  ELSE None

set_current_model(mm, model_key) ==
  LET result == get_model_config(mm.available_models, model_key)
  IN IF result # None
     THEN [mm EXCEPT !.current_model_key = model_key, !.current_model_type = result[1]]
     ELSE mm

\* add_custom_model for one of the two types the registry starts with
add_custom_model(mm, model_type, model_key, config) ==
  [mm EXCEPT !.available_models[model_type] = SetItem(@, model_key, config)]

\* remove_model: the key goes from the first type that has it
remove_model(mm, model_key) ==
  LET cleared == IF mm.current_model_key = model_key
                 THEN [mm EXCEPT !.current_model_key = "",
                                 !.current_model_type = ""]
                 ELSE mm
  IN IF HasKey(mm.available_models.remote, model_key)
     THEN [cleared EXCEPT !.available_models.remote = DelItem(@, model_key)]
     ELSE IF HasKey(mm.available_models.local, model_key)
     THEN [cleared EXCEPT !.available_models.local = DelItem(@, model_key)]
     ELSE mm

(* ---------------- OllamaInterface ---------------- *)
\* available: the service answered when the client was built;
\* installed: the models the service lists
OllamaInterface(available, installed) ==
  [available |-> available, installed |-> installed]

check_model_exists(ollama, model_name) ==
  ollama.available /\ model_name \in ollama.installed

\* pull_model: [ollama, returned]
pull_model(ollama, model_name, pull_ok) ==
  IF ~ollama.available THEN [ollama |-> ollama, returned |-> FALSE]
  ELSE IF pull_ok
  THEN [ollama |-> [ollama EXCEPT !.installed = @ \cup {model_name}],
        returned |-> TRUE]
  ELSE [ollama |-> ollama, returned |-> FALSE]

(* ---------------- EnhancedLLMInterfaceV2 ---------------- *)
\* the keys of generation_stats after __init__ and after reset_stats; the values
\* of the counters are not kept
InitialStatsKeys ==
  {"total_requests", "successful_requests", "failed_requests", "total_time",
   "model_usage", "content_filter_errors", "auto_fallbacks"}
ResetStatsKeys ==
  {"total_requests", "successful_requests", "failed_requests", "total_time",
   "model_usage"}

\* the None of current_backend
NoBackend == [type |-> "", key |-> "", config |-> ModelConfig("", "")]

\* __init__: api_key and glm_api_key say whether the key is there
EnhancedLLMInterfaceV2(api_key, glm_api_key, ollama_available, installed) ==
  [api_key |-> api_key, glm_api_key |-> glm_api_key,
   model_manager |-> ModelManager,
   ollama_interface |-> OllamaInterface(ollama_available, installed),
   current_backend |-> NoBackend,
   generation_stats |-> InitialStatsKeys]

Backend(model_type, model_key, model_config) ==
  [type |-> model_type, key |-> model_key, config |-> model_config]

\* the provider's key is there
HasProviderKey(l, model_config) ==
  IF model_config.provider = "GLM" THEN l.glm_api_key ELSE l.api_key

\* set_model after the lookup found (model_type, model_config)
SwitchTo(l, model_key, model_type, model_config, pull_ok) ==
  LET switched == [l EXCEPT
                     !.current_backend = Backend(model_type, model_key, model_config),
                     !.model_manager = set_current_model(@, model_key)]
      pulled == pull_model(l.ollama_interface, model_config.name, pull_ok)
  IN IF model_type = "remote"
     THEN IF ~HasProviderKey(l, model_config)
          THEN [llm |-> l, returned |-> FALSE]
          ELSE [llm |-> switched, returned |-> TRUE]
     ELSE IF ~l.ollama_interface.available
     THEN [llm |-> l, returned |-> FALSE]
     ELSE IF check_model_exists(l.ollama_interface, model_config.name)
     THEN [llm |-> switched, returned |-> TRUE]
     ELSE IF ~pulled.returned
     THEN [llm |-> l, returned |-> FALSE]
     ELSE [llm |-> [switched EXCEPT !.ollama_interface = pulled.ollama],
           returned |-> TRUE]

\* a set_model that switches before it checks that the backend can be used
set_model_switch_first(l, model_key, pull_ok) ==
  LET result == get_model_config(l.model_manager.available_models, model_key)
      r == SwitchTo(l, model_key, result[1], result[2], pull_ok)
  IN IF result = None THEN [llm |-> l, returned |-> FALSE]
     ELSE IF r.returned THEN r
     ELSE [llm |-> [l EXCEPT !.current_backend =
                               Backend(result[1], model_key, result[2])],
           returned |-> FALSE]

\* set_model: [llm, returned]
set_model(l, model_key, pull_ok) ==
  LET result == get_model_config(l.model_manager.available_models, model_key)
  IN IF result = None THEN [llm |-> l, returned |-> FALSE]
     ELSE SwitchTo(l, model_key, result[1], result[2], pull_ok)

\* GenerationResult; error "" is None
GenerationResult(content, model_key, model_type, error) ==
  [content |-> content, model_key |-> model_key, model_type |-> model_type,
   error |-> error]

\* list_available_models, then the keys _try_fallback_model collects: the remote
\* models of another provider than GLM whose key is there, then the installed
\* local models, the current model left out
FallbackKeys(models, usable(_), original_key) ==
  LET kept == SelectSeq(models,
                LAMBDA item : usable(item.config) /\ item.key # original_key)
  IN [i \in 1..Len(kept) |-> kept[i].key]

fallback_models(l) ==
  FallbackKeys(l.model_manager.available_models.remote,
               LAMBDA c : HasProviderKey(l, c) /\ c.provider # "GLM",
               l.current_backend.key)
  \o FallbackKeys(l.model_manager.available_models.local,
                  LAMBDA c : l.ollama_interface.available
                             /\ c.name \in l.ollama_interface.installed,
                  l.current_backend.key)

\* the loop of _try_fallback_model from the i-th fallback model on; good are the
\* models whose backend answers the prompt: [llm, raised, content]
RECURSIVE TryFallbacks(_, _, _, _, _)
TryFallbacks(l, original_backend, keys, i, good) ==
  IF i > Len(keys)
  THEN [llm |-> [l EXCEPT !.current_backend = original_backend],
        raised |-> TRUE, content |-> ""]
  ELSE LET r == set_model(l, keys[i], FALSE)
       IN IF r.returned /\ keys[i] \in good
             /\ "auto_fallbacks" \in l.generation_stats
          THEN [llm |-> r.llm, raised |-> FALSE, content |-> "text"]
          ELSE TryFallbacks(r.llm, original_backend, keys, i + 1, good)

try_fallback_model(l, good) ==
  TryFallbacks(l, l.current_backend, fallback_models(l), 1, good)

\* what the backend call of generate does: answer, raise, or (a remote backend
\* only) raise ContentFilterException on status 400 with error code 1301
Outcomes == {"ok", "error", "content_filter"}
BackendOutcome(l, outcome) ==
  IF l.current_backend.type = "local" /\ outcome = "content_filter" THEN "error"
  ELSE outcome

NoResult == GenerationResult("", "", "", "")

\* the handler of ContentFilterException in generate
AfterContentFilter(l, fallback) ==
  IF fallback.raised
  THEN [llm |-> fallback.llm, raised |-> "",
        result |-> GenerationResult("", l.current_backend.key,
                                    fallback.llm.current_backend.type,
                                    "content filter, fallback failed")]
  ELSE [llm |-> fallback.llm, raised |-> "",
        result |-> GenerationResult(fallback.content,
                                    fallback.llm.current_backend.key,
                                    fallback.llm.current_backend.type, "")]

\* generate: [llm, raised, result]; raised "" is a normal return, and a call
\* that raised has no result
generate(l, outcome, good) ==
  IF l.current_backend = NoBackend
  THEN [llm |-> l, raised |-> "",
        result |-> GenerationResult("", "", "", "no model set")]
  ELSE IF BackendOutcome(l, outcome) = "ok"
  THEN [llm |-> l, raised |-> "",
        result |-> GenerationResult("text", l.current_backend.key,
                                    l.current_backend.type, "")]
  ELSE IF BackendOutcome(l, outcome) = "error"
  THEN [llm |-> l, raised |-> "",
        result |-> GenerationResult("", l.current_backend.key,
                                    l.current_backend.type, "generation failed")]
  ELSE IF "content_filter_errors" \notin l.generation_stats
  THEN [llm |-> l, raised |-> "KeyError", result |-> NoResult]
  ELSE AfterContentFilter(l, try_fallback_model(l, good))

reset_stats(l) == [l EXCEPT !.generation_stats = ResetStatsKeys]

\* test_model(model_key); model_key "" is None: [llm, success]
TestGenerate(l, model_key, original_backend, g) ==
  [llm |-> IF model_key # "" /\ original_backend # NoBackend
           THEN [g.llm EXCEPT !.current_backend = original_backend]
           ELSE g.llm,
   success |-> /\ g.raised = ""
               /\ g.result.error = ""
               /\ g.result.content # ""]

test_model(l, model_key, pull_ok, outcome, good) ==
  LET r == IF model_key # "" THEN set_model(l, model_key, pull_ok)
           ELSE [llm |-> l, returned |-> TRUE]
  IN IF ~r.returned THEN [llm |-> r.llm, success |-> FALSE]
     ELSE IF r.llm.current_backend = NoBackend THEN [llm |-> r.llm, success |-> FALSE]
     ELSE TestGenerate(r.llm, model_key, l.current_backend,
                       generate(r.llm, outcome, good))

\* no enhanced_query has returned a result that is still to be displayed
NoModeCall ==
  [called |-> FALSE, version |-> "", mode |-> "", route |-> "",
   q |-> [words |-> 0, question_marks |-> 0, has_comparison |-> FALSE,
          has_analysis |-> FALSE, has_synthesis |-> FALSE],
   env |-> [sim |-> EmptyDict, sim_rewritten |-> EmptyDict, sim_hyde |-> EmptyDict,
            ties |-> FALSE, encode_ok |-> TRUE, rewrite_outcome |-> "",
            hyde_outcome |-> "", answer_outcome |-> "", web |-> ""],
   initialized |-> FALSE, backend_set |-> FALSE, stats_reset |-> FALSE,
   result |-> [raised |-> "", error |-> "", queries |-> <<>>, all_results |-> <<>>,
               retrieved_docs |-> <<>>, context |-> <<>>, generate_calls |-> 0,
               final_answer |-> "", pdf_block |-> FALSE, web_block |-> FALSE]]

NoLlmCall ==
  [op |-> "none", serial |-> 0, model_key |-> "", returned |-> FALSE,
   config |-> None, raised |-> "", result |-> NoResult, before |-> NoBackend,
   registry_ops |-> 0]

(* ---------------- bookkeeping of the cache calls ---------------- *)
NoCall ==
  [op |-> "none", path |-> "", force |-> FALSE, was_cached |-> FALSE,
   outcome |-> "", returned |-> 0, parsed |-> FALSE, evicted |-> {},
   unreadable |-> FALSE, hash_ok |-> TRUE,
   paths |-> <<>>, results |-> EmptyDict, futures |-> EmptyDict]

\* the paths whose record names one of the given blob hashes
PathsOfHashes(index, hashes) == {q \in DOMAIN index : index[q].file_hash \in hashes}

Restrict(d, S) == [x \in (DOMAIN d) \cap S |-> d[x]]

(* ---------------- actions: the file system ---------------- *)
\* a source file is (re)written; preserve_mtime is a copy that keeps the old time
WriteFile(p, c, preserve_mtime) ==
  /\ file_ops < MaxFileOps
  /\ c # files[p].content \/ ~files[p].exists
  /\ files' = [files EXCEPT ![p] =
                 [exists |-> TRUE, content |-> c,
                  mtime |-> IF preserve_mtime /\ files[p].exists
                            THEN files[p].mtime ELSE clock + 1]]
  /\ file_ops' = file_ops + 1
  /\ UNCHANGED <<clock, dmVars, viVars, kbVars, rrfVars, threadVars, raceVars, query_result, llmVars, mode_call, serviceVars>>

\* only the modification time of a source file changes
TouchFile(p) ==
  /\ file_ops < MaxFileOps
  /\ files[p].exists
  /\ files' = [files EXCEPT ![p].mtime = clock + 1]
  /\ file_ops' = file_ops + 1
  /\ UNCHANGED <<clock, dmVars, viVars, kbVars, rrfVars, threadVars, raceVars, query_result, llmVars, mode_call, serviceVars>>

DeleteFile(p) ==
  /\ file_ops < MaxFileOps
  /\ files[p].exists
  /\ files' = [files EXCEPT ![p].exists = FALSE]
  /\ file_ops' = file_ops + 1
  /\ UNCHANGED <<clock, dmVars, viVars, kbVars, rrfVars, threadVars, raceVars, query_result, llmVars, mode_call, serviceVars>>

(* ---------------- actions: EnhancedDocumentManager ---------------- *)
ProcessDocument(p, force_reprocess, hash_ok) ==
  /\ \E r \in {process_document(DM, files, enable_cache, p, force_reprocess, hash_ok)} :
     LET gone == PathsOfHashes(r.dm.index, {e.hash : e \in r.evicted})
         kept == IF r.parsed /\ enable_cache
                 THEN Put(saved_chunks, p, r.chunks) ELSE saved_chunks
     IN /\ r.dm.clock <= MaxClock
        /\ document_index' = r.dm.index
        /\ chunk_blobs' = r.dm.blobs
        /\ clock' = r.dm.clock
        /\ saved_chunks' = Restrict(kept, (DOMAIN kept) \ gone)
        /\ last_call' = [op |-> "process_document", path |-> p,
                         force |-> force_reprocess,
                         was_cached |-> is_document_cached(DM, files, enable_cache, p),
                         outcome |-> r.outcome, returned |-> Len(r.chunks),
                         parsed |-> r.parsed, evicted |-> r.evicted,
                         unreadable |-> BlobUnreadable(DM, p),
                         hash_ok |-> hash_ok \/ ~r.parsed]
  /\ UNCHANGED <<files, file_ops, enable_cache, viVars, kbVars, rrfVars, threadVars, raceVars, query_result, llmVars, mode_call, serviceVars>>

\* the batches handed to batch_process_documents: two different files
BatchSeqs == {s \in [1..2 -> Paths] : s[1] # s[2]}

BatchProcessDocuments(file_paths, force_reprocess) ==
  /\ \E r \in {BatchRun(DM, files, enable_cache, file_paths, force_reprocess, {})} :
     LET kept == [q \in (DOMAIN saved_chunks) \cup (IF enable_cache THEN r.parsed ELSE {})
                    |-> IF q \in r.parsed THEN r.results[q] ELSE saved_chunks[q]]
     IN /\ r.dm.clock <= MaxClock
        /\ document_index' = r.dm.index
        /\ chunk_blobs' = r.dm.blobs
        /\ clock' = r.dm.clock
        /\ saved_chunks' = kept
        /\ last_call' = [NoCall EXCEPT !.op = "batch_process_documents",
                                       !.force = force_reprocess,
                                       !.outcome = "processed",
                                       !.parsed = r.parsed # {}]
  /\ UNCHANGED <<files, file_ops, enable_cache, viVars, kbVars, rrfVars, threadVars, raceVars, query_result, llmVars, mode_call, serviceVars>>

ClearCache(p) ==
  /\ LET r == clear_cache(DM, p)
     IN /\ document_index' = r.index
        /\ chunk_blobs' = r.blobs
        /\ saved_chunks' = Restrict(saved_chunks, (DOMAIN saved_chunks) \ {p})
  /\ last_call' = [NoCall EXCEPT !.op = "clear_cache", !.path = p]
  /\ UNCHANGED <<fsVars, enable_cache, viVars, kbVars, rrfVars, threadVars, raceVars, query_result, llmVars, mode_call, serviceVars>>

ClearAllCache ==
  /\ document_index' = EmptyDict
  /\ chunk_blobs' = EmptyDict
  /\ saved_chunks' = EmptyDict
  /\ last_call' = [NoCall EXCEPT !.op = "clear_cache"]
  /\ UNCHANGED <<fsVars, enable_cache, viVars, kbVars, rrfVars, threadVars, raceVars, query_result, llmVars, mode_call, serviceVars>>

(* ---------------- initial state ---------------- *)
InitFiles ==
  [p \in Paths |->
     [exists |-> TRUE, content |-> IF p = "b.txt" THEN 2 ELSE 1, mtime |-> 0]]

\* the knowledge base starts with a.txt and b.txt on disk; a.md is uploaded later
InitFilesKB == [InitFiles EXCEPT !["a.md"].exists = FALSE]

(* ---------------- EnhancedLLMInterface (V1) ---------------- *)
\* A text is a sequence of tokens: Apology stands for the characters "抱歉",
\* RewritePrefix for "重写", OriginalPrefix for "原始", " " for white space, "nl"
\* for a line break, and any other token for other characters.
Apology == "sorry"
RewritePrefix == "rewrite"
OriginalPrefix == "original"

\* text.startswith(prefix)
StartsWith(text, prefix) == text # <<>> /\ text[1] = prefix

IsSpace(token) == token \in {" ", "nl"}

RECURSIVE LStrip(_)
LStrip(text) ==
  IF text # <<>> /\ IsSpace(Head(text)) THEN LStrip(Tail(text)) ELSE text

RECURSIVE RStrip(_)
RStrip(text) ==
  IF text # <<>> /\ IsSpace(text[Len(text)])
  THEN RStrip(SubSeq(text, 1, Len(text) - 1))
  ELSE text

\* text.strip()
Strip(text) == RStrip(LStrip(text))

\* text.split('\n')
RECURSIVE SplitLines(_)
SplitLines(text) ==
  IF \A i \in 1..Len(text) : text[i] # "nl" THEN <<text>>
  ELSE LET i == CHOOSE i \in 1..Len(text) :
                  text[i] = "nl" /\ \A j \in 1..(i - 1) : text[j] # "nl"
       IN <<SubSeq(text, 1, i - 1)>> \o SplitLines(SubSeq(text, i + 1, Len(text)))

\* what one requests.post of _generate_with_api ends in: status 200 with a
\* content, or one of the failures the loop catches
ApiFailures == {"timeout", "connection_error", "status_500"}
OkResponse(content) == [kind |-> "ok", content |-> content]
FailedResponse(kind) == [kind |-> kind, content |-> <<>>]

\* last_error after a failed attempt
LastError(kind, attempt) ==
  CASE kind = "timeout" -> "timeout " \o ToString(attempt)
    [] kind = "connection_error" -> "connection error " \o ToString(attempt)
    [] OTHER -> "api call failed"

\* the sentence returned when every attempt failed
FailureMessage(max_retries, last_error) ==
  <<Apology, ToString(max_retries), last_error>>

\* the loop of _generate_with_api from the given attempt on (attempts are
\* counted from 1): [attempts, text]
RECURSIVE ApiAttempts(_, _, _, _)
ApiAttempts(max_retries, responses, attempt, last_error) ==
  IF attempt > max_retries
  THEN [attempts |-> max_retries, text |-> FailureMessage(max_retries, last_error)]
  ELSE IF responses[attempt].kind = "ok"
  THEN [attempts |-> attempt, text |-> responses[attempt].content]
  ELSE ApiAttempts(max_retries, responses, attempt + 1,
                   LastError(responses[attempt].kind, attempt))

generate_with_api(max_retries, responses) ==
  ApiAttempts(max_retries, responses, 1, "None")

\* the None of a CAMEL response: the CAMEL model raised
CamelRaised == FailedResponse("camel_error")

\* EnhancedLLMInterface.generate: the CAMEL model first when it is available, the
\* direct API when it is not or when it raised: [llm, attempts, text]
generate_v1_interface(l, camel_response, responses) ==
  IF l.camel_available /\ camel_response.kind = "ok"
  THEN [llm |-> l, attempts |-> 0, text |-> camel_response.content]
  ELSE \* a failed CAMEL call marks CAMEL as unavailable
       [llm |-> [l EXCEPT !.camel_available = FALSE],
        attempts |-> generate_with_api(l.max_retries, responses).attempts,
        text |-> generate_with_api(l.max_retries, responses).text]

\* the loop of _query_rewriting over the lines of the generated text
RECURSIVE FirstUsableLine(_, _)
FirstUsableLine(lines, query_text) ==
  IF lines = <<>> THEN query_text
  ELSE IF /\ Strip(Head(lines)) # <<>>
          /\ ~StartsWith(Strip(Head(lines)), RewritePrefix)
          /\ ~StartsWith(Strip(Head(lines)), OriginalPrefix)
  THEN Strip(Head(lines))
  ELSE FirstUsableLine(Tail(lines), query_text)

\* _query_rewriting after llm.generate returned rewritten
query_rewriting(query_text, rewritten) ==
  IF rewritten # <<>> /\ ~StartsWith(rewritten, Apology)
  THEN FirstUsableLine(SplitLines(Strip(rewritten)), query_text)
  ELSE query_text

\* a HyDE step that takes whatever generate returned
hyde_generation_keeps_any_text(query_text, hyde_doc) ==
  IF hyde_doc # <<>> THEN Strip(hyde_doc) ELSE query_text

\* _hyde_generation after llm.generate returned hyde_doc
hyde_generation(query_text, hyde_doc) ==
  IF hyde_doc # <<>> /\ ~StartsWith(hyde_doc, Apology)
  THEN Strip(hyde_doc)
  ELSE query_text

\* before __init__ has run
NoInterfaceV1 == [created |-> FALSE, max_retries |-> 0, camel_available |-> FALSE]

NoV1Call == [op |-> "none", query_text |-> <<>>, camel_available |-> FALSE,
             camel_response |-> CamelRaised, responses |-> <<>>,
             attempts |-> 0, text |-> <<>>, probe |-> <<>>]

\* no results request has been made
NoRequest == [pc |-> "idle", search_id |-> "", code |-> 0, error |-> ""]

\* no deep retrieval has been started
NoDeep == [pc |-> "idle", runs |-> 0, all_results |-> <<>>, final_docs |-> <<>>]

InitService ==
  /\ llm_v1 = NoInterfaceV1
  /\ v1_call = NoV1Call
  /\ search_tasks = EmptyDict
  /\ search_results = EmptyDict
  /\ search_threads = EmptyDict
  /\ request = NoRequest
  /\ deep = NoDeep

NoViCall == [op |-> "none", raised |-> FALSE]
NoKbCall == [op |-> "none", args |-> <<>>, ok |-> TRUE]
NoReadd == [phase |-> "none", source |-> "", before |-> EmptyBag]

InitProgram(fs, enabled) ==
  /\ files = fs
  /\ clock = 0
  /\ file_ops = 0
  /\ enable_cache \in enabled
  /\ document_index = EmptyDict
  /\ chunk_blobs = EmptyDict
  /\ last_call = NoCall
  /\ saved_chunks = EmptyDict
  /\ documents = <<>>
  /\ doc_metadata = <<>>
  /\ document_ids = <<>>
  /\ doc_embeddings = <<>>
  /\ vi_call = NoViCall
  /\ knowledge_base_initialized = FALSE
  /\ current_sources = <<>>
  /\ document_chunks_store = EmptyDict
  /\ kb_call = NoKbCall
  /\ kb_all_ok = TRUE
  /\ kb_ops = 0
  /\ readd = NoReadd
  /\ rrf_input = <<>>
  /\ rrf_output = [calls |-> 0, docs |-> <<>>]
  /\ workers = <<>>
  /\ index_file = [intact |-> TRUE, data |-> EmptyDict]
  /\ batches = 0
  /\ adder = [pc |-> "idle", adds |-> 0]
  /\ reader = [pc |-> "idle"]
  /\ query_result = NoQuery
  /\ mode_call = NoModeCall
  /\ InitService

\* the interface the system is built with: a ModelScope token, no GLM key, no Ollama
InitWith(fs, enabled) ==
  /\ InitProgram(fs, enabled)
  /\ llm = EnhancedLLMInterfaceV2(TRUE, FALSE, FALSE, {})
  /\ llm_call = NoLlmCall

Init == InitWith(InitFiles, BOOLEAN)

(* ---------------- the document cache ---------------- *)
\* the blob files that get damaged: those of the first contents of the edited files
Hashes == {get_file_hash(InitFiles[p].content, TRUE) : p \in EditedPaths}

\* the bytes of a blob file are damaged on disk: pickle.load will raise on it
CorruptBlob(h) ==
  /\ file_ops < MaxFileOps
  /\ h \in DOMAIN chunk_blobs
  /\ chunk_blobs[h].readable
  /\ chunk_blobs' = [chunk_blobs EXCEPT ![h].readable = FALSE]
  /\ file_ops' = file_ops + 1
  /\ UNCHANGED <<files, clock, enable_cache, document_index, last_call, saved_chunks,
                 viVars, kbVars, rrfVars, threadVars, raceVars, query_result, llmVars, mode_call, serviceVars>>

NextCache ==
  \/ \E p \in EditedPaths, c \in FileContents, k \in BOOLEAN : WriteFile(p, c, k)
  \/ \E p \in EditedPaths : TouchFile(p)
  \/ \E p \in EditedPaths : DeleteFile(p)
  \/ \E p \in Paths, f \in BOOLEAN : ProcessDocument(p, f, TRUE)
  \/ \E p \in EditedPaths : ProcessDocument(p, FALSE, FALSE)
  \/ \E h \in Hashes : CorruptBlob(h)
  \/ \E s \in BatchSeqs, f \in BOOLEAN : BatchProcessDocuments(s, f)
  \/ \E p \in Paths : ClearCache(p)
  \/ ClearAllCache

SpecCache == Init /\ [][NextCache]_vars


(* ---------------- actions: EnhancedVectorRetriever ---------------- *)
IndexEntries ==
  {[text |-> <<"x">>, metadata |-> [type |-> "text"]],
   [text |-> <<"y">>, metadata |-> [type |-> "table"]]}

\* the batches handed to add_documents: none, one or two entries
IndexBatches == UNION {[1..n -> IndexEntries] : n \in 0..2}

AddDocuments(batch, encode_ok) ==
  /\ LET r == add_documents(VI, [i \in 1..Len(batch) |-> batch[i].text],
                            [i \in 1..Len(batch) |-> batch[i].metadata], encode_ok)
     IN /\ Len(r.vi.documents) <= MaxIndexLen
        /\ documents' = r.vi.documents
        /\ doc_metadata' = r.vi.doc_metadata
        /\ document_ids' = r.vi.document_ids
        /\ doc_embeddings' = r.vi.doc_embeddings
        /\ vi_call' = [op |-> "add_documents", raised |-> r.raised]
  /\ UNCHANGED <<fsVars, dmVars, kbVars, rrfVars, threadVars, raceVars, query_result, llmVars, mode_call, serviceVars>>

NextIndex == \E b \in IndexBatches, e \in BOOLEAN : AddDocuments(b, e)

SpecIndex == Init /\ [][NextIndex]_vars

(* ---------------- actions: EnhancedVectorRetriever.query ---------------- *)
\* similarities of a query to the texts: 0 or 1 each, so that ties occur
IndexTexts == {e.text : e \in IndexEntries}
SimilarityMaps == [IndexTexts -> 0..1]
FilterTypes == {"", "text", "table"}

Query(sim_of, top_k, filter_type, ties_high_row_first, encode_ok) ==
  /\ query_result' = [called |-> TRUE, serial |-> 1 - query_result.serial,
                      sim_of |-> sim_of,
                      top_k |-> top_k, filter_type |-> filter_type,
                      results |-> query(VI, sim_of, top_k, filter_type,
                                        ties_high_row_first, encode_ok)]
  /\ UNCHANGED <<fsVars, dmVars, viVars, kbVars, rrfVars, threadVars, raceVars, llmVars, mode_call, serviceVars>>

\* add_documents on the index that is queried
FillIndex(batch, encode_ok) ==
  /\ Len(documents) + Len(batch) <= MaxQueryRows
  /\ AddDocuments(batch, encode_ok)

NextQuery ==
  \/ \E b \in IndexBatches, e \in BOOLEAN : FillIndex(b, e)
  \/ \E sim_of \in SimilarityMaps, top_k \in 1..MaxTopK, filter_type \in FilterTypes,
        ties \in BOOLEAN, e \in BOOLEAN :
          Query(sim_of, top_k, filter_type, ties, e)

SpecQuery == Init /\ [][NextQuery]_vars

(* ---------------- actions: the knowledge base ---------------- *)
\* the stored (text, metadata) entries as a multiset
IndexBag(vi) ==
  [e \in {<<vi.documents[i], vi.doc_metadata[i]>> : i \in 1..Len(vi.documents)} |->
        Cardinality({i \in 1..Len(vi.documents) :
                       <<vi.documents[i], vi.doc_metadata[i]>> = e})]

Range(seq) == {seq[i] : i \in 1..Len(seq)}

Occurrences(x, seq) == Cardinality({i \in 1..Len(seq) : seq[i] = x})

\* the source lists handed to setup, add and remove: one or two paths
SourceLists == UNION {[1..n -> Paths] : n \in 1..2}

ApplyKB(kb) ==
  /\ kb_ops < MaxKbOps
  /\ kb_ops' = kb_ops + 1
  /\ Len(kb.vi.documents) <= MaxIndexLen
  /\ documents' = kb.vi.documents
  /\ doc_metadata' = kb.vi.doc_metadata
  /\ document_ids' = kb.vi.document_ids
  /\ doc_embeddings' = kb.vi.doc_embeddings
  /\ document_index' = kb.dm.index
  /\ chunk_blobs' = kb.dm.blobs
  /\ clock' = kb.dm.clock
  /\ knowledge_base_initialized' = kb.initialized
  /\ current_sources' = kb.sources
  /\ document_chunks_store' = kb.store

SetupKnowledgeBase(sources, force_reprocess, encode_ok) ==
  /\ kb_ops < MaxKbOps
  /\ \E r \in {setup_knowledge_base(KB, files, enable_cache, sources,
                                    force_reprocess, encode_ok)} :
        /\ ApplyKB(r.kb)
        /\ kb_call' = [op |-> "setup", args |-> sources, ok |-> ~r.raised]
        /\ kb_all_ok' = (kb_all_ok /\ ~r.raised)
  /\ readd' = NoReadd
  /\ UNCHANGED <<files, file_ops, enable_cache, last_call, saved_chunks, vi_call,
                 rrfVars, threadVars, raceVars, query_result, llmVars, mode_call, serviceVars>>

AddToKnowledgeBase(new_sources, encode_ok) ==
  /\ kb_ops < MaxKbOps
  /\ \E r \in {add_documents_to_knowledge_base(KB, files, enable_cache,
                                               new_sources, encode_ok)} :
        /\ ApplyKB(r.kb)
        /\ kb_call' = [op |-> "add", args |-> new_sources, ok |-> r.ret]
        /\ kb_all_ok' = (kb_all_ok /\ r.ret)
        /\ readd' = IF readd.phase = "removed" /\ new_sources = <<readd.source>> /\ r.ret
                    THEN [readd EXCEPT !.phase = "readded"]
                    ELSE NoReadd
  /\ UNCHANGED <<files, file_ops, enable_cache, last_call, saved_chunks, vi_call,
                 rrfVars, threadVars, raceVars, query_result, llmVars, mode_call, serviceVars>>

RemoveFromKnowledgeBase(sources_to_remove, encode_ok) ==
  /\ kb_ops < MaxKbOps
  /\ \E r \in {remove_documents_from_knowledge_base(KB, sources_to_remove,
                                                    encode_ok)} :
        /\ ApplyKB(r.kb)
        /\ kb_call' = [op |-> "remove", args |-> sources_to_remove, ok |-> r.ret]
        /\ kb_all_ok' = (kb_all_ok /\ r.ret)
        /\ readd' = IF /\ Len(sources_to_remove) = 1
                       /\ knowledge_base_initialized
                       /\ kb_all_ok
                       /\ \A q \in Paths : Occurrences(q, current_sources) <= 1
                       /\ InSeq(sources_to_remove[1], current_sources)
                       /\ r.ret
                    THEN [phase |-> "removed", source |-> sources_to_remove[1],
                          before |-> IndexBag(VI)]
                    ELSE NoReadd
  /\ UNCHANGED <<files, file_ops, enable_cache, last_call, saved_chunks, vi_call,
                 rrfVars, threadVars, raceVars, query_result, llmVars, mode_call, serviceVars>>

\* an enhanced_query that does not look at knowledge_base_initialized
enhanced_query_unchecked(kb) == [error |-> "", retrieved |-> TRUE]

\* enhanced_query: RuntimeError before any retrieval when the knowledge base is
\* not initialized, otherwise the retrieval of the chosen mode runs
enhanced_query(kb) ==
  IF ~kb.initialized THEN [error |-> "RuntimeError", retrieved |-> FALSE]
  ELSE [error |-> "", retrieved |-> TRUE]

EnhancedQuery ==
  /\ kb_ops < MaxKbOps
  /\ kb_ops' = kb_ops + 1
  /\ \E r \in {enhanced_query(KB)} :
        /\ kb_call' = [op |-> "query", args |-> <<>>, ok |-> r.error = ""]
        /\ vi_call' = IF r.retrieved THEN [op |-> "query", raised |-> FALSE]
                      ELSE vi_call
  /\ UNCHANGED <<fsVars, dmVars, documents, doc_metadata, document_ids,
                 doc_embeddings, knowledge_base_initialized, current_sources,
                 document_chunks_store, kb_all_ok, readd, rrfVars, threadVars, raceVars, query_result, llmVars, mode_call, serviceVars>>

\* upload_documents: the file is saved under a new name, then the whole list is set up
UploadedContents == {1}

UploadDocuments(p, c, encode_ok) ==
  /\ kb_ops < MaxKbOps
  /\ ~files[p].exists
  /\ files' = [files EXCEPT ![p] = [exists |-> TRUE, content |-> c,
                                     mtime |-> clock + 1, readable |-> TRUE]]
  /\ \E r \in {setup_knowledge_base(KB, files', enable_cache,
                                    current_sources \o <<p>>, TRUE, encode_ok)} :
        /\ ApplyKB(r.kb)
        /\ kb_call' = [op |-> "upload", args |-> <<p>>, ok |-> ~r.raised]
        /\ kb_all_ok' = (kb_all_ok /\ ~r.raised)
  /\ readd' = NoReadd
  /\ UNCHANGED <<file_ops, enable_cache, last_call, saved_chunks, vi_call, rrfVars, threadVars, raceVars, query_result, llmVars, mode_call, serviceVars>>

NextKB ==
  \/ \E s \in SourceLists, f \in BOOLEAN, e \in BOOLEAN : SetupKnowledgeBase(s, f, e)
  \/ \E s \in SourceLists, e \in BOOLEAN : AddToKnowledgeBase(s, e)
  \/ \E s \in SourceLists, e \in BOOLEAN : RemoveFromKnowledgeBase(s, e)
  \/ \E p \in Paths, c \in UploadedContents, e \in BOOLEAN : UploadDocuments(p, c, e)
  \/ EnhancedQuery

\* the system builds its document manager with enable_cache=True
SpecKB == InitWith(InitFilesKB, {TRUE}) /\ [][NextKB]_vars

(* ---------------- the cache: properties ---------------- *)
IsCached(p) == is_document_cached(DM, files, enable_cache, p)

\* (a) a record for the path, (b) same size and mtime, (c) the record's blob exists
RecordMatchesFile(p) ==
  /\ p \in DOMAIN document_index
  /\ files[p].exists
  /\ FileSize(files[p].content) = document_index[p].file_size
  /\ files[p].mtime = document_index[p].last_modified
  /\ document_index[p].file_hash \in DOMAIN chunk_blobs

FileChanged(p) ==
  \/ files'[p].mtime # files[p].mtime
  \/ FileSize(files'[p].content) # FileSize(files[p].content)

C7_EvictionBound ==
  /\ TotalSize(chunk_blobs) <= MaxCacheBytes
  /\ \A e \in last_call.evicted : \A h \in DOMAIN chunk_blobs :
        e.mtime <= chunk_blobs[h].mtime

SameChunks(loaded, saved) ==
  /\ Len(loaded) = Len(saved)
  /\ \A i \in 1..Len(saved) :
        /\ loaded[i].chunk_id = saved[i].chunk_id
        /\ loaded[i].content = saved[i].content

\* C8: after save(path, chunks, record), a later load(path) with no save,
\* evict or clear of that path in between returns the saved chunk list (same
\* length, order, chunk ids and contents), whatever was saved for other paths.
\* (Blob files damaged on disk and records saved under a failed hash are the
\* cases of C16 and C17 and are left out here.)
C8_RoundTrip ==
  \A p \in DOMAIN saved_chunks :
    (~BlobUnreadable(DM, p) /\ (p \in DOMAIN document_index
                                  => document_index[p].file_hash # 0))
      => SameChunks(load_cached_chunks(DM, p), saved_chunks[p])

\* C9: processing an already cached, unmodified source again without force
\* returns as many chunks as the processing that cached it and does not run
\* the format parser.
C9_CachedReprocess ==
  (/\ last_call.op = "process_document" /\ last_call.was_cached /\ ~last_call.force
   /\ ~last_call.unreadable
   /\ document_index[last_call.path].file_hash # 0)
    => /\ ~last_call.parsed
       /\ last_call.returned = document_index[last_call.path].chunk_count

\* C16: when the cached blob of a source cannot be deserialized, processing
\* the source (without force) parses it again and returns its chunks.
C16_UnreadableBlobIsCacheMiss ==
  (/\ last_call.op = "process_document" /\ ~last_call.force
   /\ last_call.was_cached /\ last_call.unreadable)
    => /\ last_call.parsed
       /\ last_call.outcome = "processed"

\* C17: when hashing the source fails, processing returns the parsed chunks
\* and writes no blob and adds or changes no index record.
C17_HashFailurePersistsNothing ==
  [][\A p \in Paths, force_reprocess \in BOOLEAN :
       (ProcessDocument(p, force_reprocess, FALSE) /\ last_call'.parsed)
         => /\ last_call'.returned = Len(Processor(p, files[p].content))
            /\ document_index' = document_index
            /\ chunk_blobs' = chunk_blobs]_vars

\* C18: after eviction no index record refers to a blob that eviction deleted.
C18_EvictionRemovesIndexEntries ==
  (last_call.op = "process_document" /\ last_call.evicted # {})
    => \A e \in last_call.evicted :
         \A q \in DOMAIN document_index : document_index[q].file_hash # e.hash


(* ---------------- the vector index: properties ---------------- *)
\* C1: after any sequence of add calls, whether or not the embedding function
\* raises, documents, doc_metadata, document_ids and the embedding rows have
\* the same length.
C1_EqualLengths ==
  /\ Len(documents) = Len(doc_metadata)
  /\ Len(documents) = Len(document_ids)
  /\ Len(documents) = Len(doc_embeddings)

\* C10: an add whose embedding step fails leaves the four containers exactly
\* as they were before the call.
C10_FailedAddChangesNothing ==
  [][(vi_call'.op = "add_documents" /\ vi_call'.raised)
       => /\ documents' = documents
          /\ doc_metadata' = doc_metadata
          /\ document_ids' = document_ids
          /\ doc_embeddings' = doc_embeddings]_vars

(* ---------------- the knowledge base: properties ---------------- *)
EntriesOf(source) ==
  Cardinality({i \in 1..Len(doc_metadata) : doc_metadata[i].source_file = source})

\* C3: after any sequence of successful setup, add and remove operations the
\* index holds exactly one entry per chunk of each tracked source (counted
\* once per place the source has in the tracked list), no more and no fewer.
C3_OneEntryPerChunk ==
  kb_all_ok =>
    \A s \in Paths :
      EntriesOf(s) = IF s \in DOMAIN document_chunks_store
                     THEN Occurrences(s, current_sources)
                          * Len(document_chunks_store[s])
                     ELSE 0

\* C4: in a run of successful operations, after remove(S) returns success the index has no entry whose source is
\* in S; it is a freshly built index of the stored chunks of the sources that
\* remain tracked, also when S is the whole tracked list.
C4_RemoveRebuildsIndex ==
  (kb_all_ok /\ kb_call.op = "remove" /\ kb_call.ok) =>
    LET remaining == StoredEntries(current_sources, document_chunks_store, 1)
    IN /\ \A i \in 1..Len(doc_metadata) :
             ~InSeq(doc_metadata[i].source_file, kb_call.args)
       /\ documents = remaining.texts
       /\ doc_metadata = remaining.metadata
       /\ doc_embeddings = Encode(remaining.texts)

\* C5: remove([X]) followed by add([X]) on an initialized knowledge base that
\* tracks X leaves the index with the same multiset of (text, metadata)
\* entries as before the removal, also when X is the only source.
C5_RemoveThenAddRestores ==
  readd.phase = "readded" => IndexBag(VI) = readd.before


(* ---------------- reciprocal rank fusion ---------------- *)
\* k of _rrf_fusion
RrfK == 60

\* Scores are kept exact: a score s of the program is the integer s * ScoreUnit,
\* ScoreUnit being the product of the denominators k+1 .. k+MaxRank, and at
\* least up to k+5 for the five results of a deep retrieval query.
RECURSIVE Product(_, _)
Product(lo, hi) == IF lo > hi THEN 1 ELSE lo * Product(lo + 1, hi)

ScoreUnit == Product(RrfK + 1, RrfK + (IF MaxRank > 5 THEN MaxRank ELSE 5))

\* 1.0 / (k + rank + 1) for a zero-based rank
Reciprocal(k, rank) == ScoreUnit \div (k + rank + 1)

\* position of doc_id among the keys of doc_scores, 0 when it is not a key
KeyIndex(doc_scores, doc_id) ==
  IF \E i \in 1..Len(doc_scores) : doc_scores[i].id = doc_id
  THEN CHOOSE i \in 1..Len(doc_scores) : doc_scores[i].id = doc_id
  ELSE 0

\* one pass of the inner loop: the results of one list from position pos on
\* (pos is one-based, the rank of results[pos] is pos - 1)
RECURSIVE ScanResults(_, _, _, _)
ScanResults(results, pos, k, doc_scores) ==
  IF pos > Len(results) THEN doc_scores
  ELSE LET doc == results[pos]
           doc_id == doc.id
           rrf_score == Reciprocal(k, pos - 1)
           at == KeyIndex(doc_scores, doc_id)
           next == IF doc_id = "" THEN doc_scores
                   ELSE IF at # 0
                        THEN [doc_scores EXCEPT ![at].score = @ + rrf_score]
                        ELSE Append(doc_scores,
                                    [id |-> doc_id, doc |-> doc, score |-> rrf_score])
       IN ScanResults(results, pos + 1, k, next)

\* the outer loop over the result lists; doc_scores keeps insertion order
RECURSIVE ScanLists(_, _, _, _)
ScanLists(all_results, n, k, doc_scores) ==
  IF n > Len(all_results) THEN doc_scores
  ELSE ScanLists(all_results, n + 1, k,
                 ScanResults(all_results[n], 1, k, doc_scores))

\* a sort that puts the later of two items with equal scores first
StaysBefore_ties_reversed(earlier, later) == earlier.score > later.score

\* sorted(..., key=score, reverse=True) is stable: an item stays before a
\* later one unless its score is lower
StaysBefore(earlier, later) == earlier.score >= later.score

RECURSIVE InsertDesc(_, _)
InsertDesc(sorted, item) ==
  IF sorted = <<>> THEN <<item>>
  ELSE IF StaysBefore(Head(sorted), item)
       THEN <<Head(sorted)>> \o InsertDesc(Tail(sorted), item)
       ELSE <<item>> \o sorted

RECURSIVE SortedDesc(_, _)
SortedDesc(items, n) ==
  IF n = 0 THEN <<>> ELSE InsertDesc(SortedDesc(items, n - 1), items[n])

\* the copy of the first-seen doc with its 'rrf_score'
FinalDoc(item) ==
  [id |-> item.doc.id, similarity |-> item.doc.similarity, rrf_score |-> item.score]

rrf_fusion_unsorted(all_results, k) ==
  LET doc_scores == ScanLists(all_results, 1, k, <<>>)
  IN [i \in 1..Len(doc_scores) |-> FinalDoc(doc_scores[i])]

rrf_fusion(all_results, k) ==
  LET doc_scores == ScanLists(all_results, 1, k, <<>>)
      sorted_docs == SortedDesc(doc_scores, Len(doc_scores))
  IN [i \in 1..Len(sorted_docs) |-> FinalDoc(sorted_docs[i])]

\* ids a query result can carry; "" is a result without an id
ResultIds == {"", "doc1", "doc2", "doc3"}

\* the rankings a query returns: the first query up to MaxRank results, the
\* filtered and rewritten ones up to two
Rankings(n) == UNION {[1..m -> ResultIds] : m \in 0..(IF n = 1 THEN MaxRank ELSE 2)}

\* all_results.append(results) of the deep retrieval path; the similarity
\* of a result stands for the query that produced it
AppendResults(ids) ==
  /\ Len(rrf_input) < MaxLists
  /\ rrf_output.calls = 0
  /\ rrf_input' = Append(rrf_input,
                         [r \in 1..Len(ids) |->
                            [id |-> ids[r], similarity |-> Len(rrf_input) + 1]])
  /\ UNCHANGED <<rrf_output, fsVars, dmVars, viVars, kbVars, threadVars, raceVars, query_result, llmVars, mode_call, serviceVars>>

RrfFusion ==
  /\ rrf_input # <<>>
  /\ rrf_output.calls < MaxFusions
  /\ rrf_output' = [calls |-> rrf_output.calls + 1,
                    docs |-> rrf_fusion(rrf_input, RrfK)]
  /\ UNCHANGED <<rrf_input, fsVars, dmVars, viVars, kbVars, threadVars, raceVars, query_result, llmVars, mode_call, serviceVars>>

\* the next query starts from an empty all_results
NewQuery ==
  /\ rrf_output.calls > 0
  /\ rrf_input' = <<>>
  /\ rrf_output' = [calls |-> 0, docs |-> <<>>]
  /\ UNCHANGED <<fsVars, dmVars, viVars, kbVars, threadVars, raceVars, query_result, llmVars, mode_call, serviceVars>>

NextRRF ==
  \/ \E ids \in Rankings(Len(rrf_input) + 1) : AppendResults(ids)
  \/ RrfFusion
  \/ NewQuery

SpecRRF == InitWith(InitFiles, {TRUE}) /\ [][NextRRF]_vars

(* ---------------- reciprocal rank fusion: properties ---------------- *)
IdsOf(results) == [r \in 1..Len(results) |-> results[r].id]

\* the places <<list, position>> at which doc_id occurs in the input
OccurrencesOfId(doc_id) ==
  {x \in (1..Len(rrf_input)) \X (1..MaxRank) :
     /\ x[2] <= Len(rrf_input[x[1]])
     /\ rrf_input[x[1]][x[2]].id = doc_id}

RECURSIVE SumOfReciprocals(_)
SumOfReciprocals(places) ==
  IF places = {} THEN 0
  ELSE LET x == CHOOSE y \in places : TRUE
       IN (ScoreUnit \div (RrfK + (x[2] - 1) + 1)) + SumOfReciprocals(places \ {x})

NonEmptyIds == {id \in ResultIds : id # "" /\ OccurrencesOfId(id) # {}}

PositionOf(docs, doc_id) == CHOOSE i \in 1..Len(docs) : docs[i].id = doc_id

ExampleInput ==
  /\ Len(rrf_input) = 2
  /\ IdsOf(rrf_input[1]) = <<"doc1", "doc2", "doc3">>
  /\ IdsOf(rrf_input[2]) = <<"doc2", "doc1">>

C2_FusedRanking ==
  rrf_output.calls > 0 =>
    LET out == rrf_output.docs
    IN /\ Len(out) = Cardinality(NonEmptyIds)
       /\ {out[i].id : i \in 1..Len(out)} = NonEmptyIds
       /\ \A i \in 1..Len(out) :
            out[i].rrf_score = SumOfReciprocals(OccurrencesOfId(out[i].id))
       /\ \A i, j \in 1..Len(out) :
            i < j => out[i].rrf_score >= out[j].rrf_score
       /\ ExampleInput =>
            /\ PositionOf(out, "doc1") < PositionOf(out, "doc3")
            /\ PositionOf(out, "doc2") < PositionOf(out, "doc3")

\* C2: the fused list holds every distinct non-empty id exactly once, scored
\* with the sum of 1/(k+r+1) over its occurrences, in descending score order;
\* fusing the same input again gives the same output, and for
\* A=[doc1,doc2,doc3], B=[doc2,doc1] doc1 and doc2 come before doc3.
C2_RrfFusion ==
  /\ []C2_FusedRanking
  /\ [][(rrf_output.calls > 0 /\ rrf_output'.calls > 0 /\ rrf_input' = rrf_input)
          => rrf_output'.docs = rrf_output.docs]_vars

\* the place <<list, position>> where doc_id is encountered first when the
\* lists are scanned in the order given, each list by rank
FirstSeen(doc_id) ==
  CHOOSE x \in OccurrencesOfId(doc_id) :
    \A y \in OccurrencesOfId(doc_id) :
      x[1] < y[1] \/ (x[1] = y[1] /\ x[2] <= y[2])

SeenBefore(x, y) == x[1] < y[1] \/ (x[1] = y[1] /\ x[2] < y[2])

\* C19: of two fused candidates with equal total score the one whose id was
\* encountered first comes first in the fused ranking.
C19_TiesFirstSeen ==
  rrf_output.calls > 0 =>
    \A i, j \in 1..Len(rrf_output.docs) :
      (i < j /\ rrf_output.docs[i].rrf_score = rrf_output.docs[j].rrf_score)
        => SeenBefore(FirstSeen(rrf_output.docs[i].id),
                      FirstSeen(rrf_output.docs[j].id))

\* A=[doc1,doc2,doc3], B=[doc2,doc1]: doc1 and doc2 tie, doc1 was seen first
C19_Witness ==
  /\ rrf_output.calls > 0
  /\ ExampleInput
  /\ Len(rrf_output.docs) = 3
  /\ rrf_output.docs[1].id = "doc1"
  /\ rrf_output.docs[2].id = "doc2"
  /\ rrf_output.docs[1].rrf_score = rrf_output.docs[2].rrf_score

C2_Witness ==
  /\ rrf_output.calls = 2
  /\ ExampleInput
  /\ IdsOf(rrf_output.docs) = <<"doc1", "doc2", "doc3">>
  /\ rrf_output.docs[1].rrf_score = (ScoreUnit \div 61) + (ScoreUnit \div 62)
  /\ rrf_output.docs[3].rrf_score = ScoreUnit \div 63


(* ---------------- the knowledge base: setup, add, states ---------------- *)
\* a source that process_document can turn into chunks
SourceYields(source) == files[source].exists /\ Suffix(source) \in supported_formats

\* the entries a step appended to the index
Appended == {i \in 1..Len(doc_metadata') : i > Len(doc_metadata)}

\* what a setup of sources whose embedding succeeds has to leave behind
SetupOutcome(sources) ==
  LET good == {sources[i] : i \in {j \in 1..Len(sources) : SourceYields(sources[j])}}
  IN IF good = {}
     THEN /\ ~kb_call'.ok
          /\ knowledge_base_initialized' = knowledge_base_initialized
          /\ Appended = {}
     ELSE /\ kb_call'.ok
          /\ knowledge_base_initialized'
          /\ \A i \in Appended : doc_metadata'[i].source_file \in good
          /\ \A g \in good :
               /\ \E i \in Appended : doc_metadata'[i].source_file = g
               /\ g \in DOMAIN document_chunks_store'

IndexStoreSources ==
  <<documents, doc_metadata, document_ids, doc_embeddings, document_chunks_store,
    current_sources>>

\* C12: add on an initialized knowledge base processes and embeds only the
\* sources that are not tracked yet; when all given sources are tracked it
\* returns success and leaves the index, the chunk store and the tracked list
\* unchanged, so that repeating a successful add changes nothing.
C12_AddOnlyDelta ==
  [][(kb_call'.op = "add" /\ knowledge_base_initialized) =>
       LET new_sources == kb_call'.args
       IN /\ \A i \in Appended :
               /\ doc_metadata'[i].source_file \in Range(new_sources)
               /\ ~InSeq(doc_metadata'[i].source_file, current_sources)
          /\ SubSeq(documents', 1, Len(documents)) = documents
          /\ SubSeq(doc_metadata', 1, Len(doc_metadata)) = doc_metadata
          /\ \A p \in Paths :
               InSeq(p, current_sources) =>
                 /\ (p \in DOMAIN document_index') = (p \in DOMAIN document_index)
                 /\ p \in DOMAIN document_index => document_index'[p] = document_index[p]
                 /\ (p \in DOMAIN document_chunks_store')
                      = (p \in DOMAIN document_chunks_store)
                 /\ p \in DOMAIN document_chunks_store
                      => document_chunks_store'[p] = document_chunks_store[p]
          /\ (\A i \in 1..Len(new_sources) : InSeq(new_sources[i], current_sources))
               => kb_call'.ok /\ UNCHANGED IndexStoreSources
          /\ kb_call'.ok
               => \A i \in 1..Len(new_sources) : InSeq(new_sources[i], current_sources')]_vars

\* three successful operations, the last two being add(['a.txt']) on a base that
\* tracks a.txt already: the index still holds a.txt's two chunks
C12_Witness ==
  /\ kb_call = [op |-> "add", args |-> <<"a.txt">>, ok |-> TRUE]
  /\ kb_all_ok
  /\ kb_ops = 3
  /\ knowledge_base_initialized
  /\ current_sources = <<"a.txt">>
  /\ Len(documents) = 2
  /\ Len(doc_embeddings) = 2


\* C13: the knowledge base starts Uninitialized, becomes Initialized only by a
\* successful setup (directly, by an upload or by an add on an uninitialized
\* base), becomes not initialized exactly when a remove leaves no tracked
\* source, and while it is not initialized a query is rejected with the
\* not-initialized error before any retrieval.
C13_KnowledgeBaseStates ==
  /\ [](kb_ops = 0 => ~knowledge_base_initialized)
  /\ [][/\ (~knowledge_base_initialized /\ knowledge_base_initialized')
             => kb_call'.op \in {"setup", "add", "upload"} /\ kb_call'.ok
        /\ (knowledge_base_initialized /\ ~knowledge_base_initialized')
             <=> /\ knowledge_base_initialized
                 /\ kb_call'.op = "remove"
                 /\ current_sources' = <<>>
        /\ (kb_call'.op = "query" /\ ~knowledge_base_initialized)
             => ~kb_call'.ok /\ vi_call' = vi_call]_vars

\* setup, then the removal of every source, then a query that is rejected
C13_Witness ==
  /\ kb_call = [op |-> "query", args |-> <<>>, ok |-> FALSE]
  /\ ~knowledge_base_initialized
  /\ current_sources = <<>>
  /\ kb_ops = 3
  /\ kb_all_ok
  /\ vi_call = NoViCall
  /\ documents # <<>>


(* ---------------- batch_process_documents on the thread pool ---------------- *)
\* A pool thread runs _process_document_optimized for one path. Its pc names the
\* statement it executes next:
\*   check_cache      the cache test at the top of _process_document_optimized
\*   parse            the format processor and DocumentMetadata(...)
\*   write_blob       _save_chunks_to_cache: pickle.dump into <hash>.pkl
\*   update_index     _save_chunks_to_cache: self.document_index[file_path] = metadata
\*   snapshot_index   _save_document_index: data = {k: asdict(v) ...}
\*   open_index_file  _save_document_index: open(index_file, 'w'), which truncates
\*   write_index_file _save_document_index: json.dump and the close of the file
\*   done, raised     the future has its result or its exception
NewWorker(path, force_reprocess) ==
  [pc |-> "check_cache", path |-> path, force |-> force_reprocess, chunks |-> <<>>,
   metadata |-> <<>>, data |-> EmptyDict, overlapped |-> FALSE]

Finished(w) == w.pc \in {"done", "raised"}

\* executor.submit(...) for every path; max_workers = 4 threads take them all
SubmitBatch(file_paths, force_reprocess) ==
  /\ workers = <<>>
  /\ batches < MaxBatches
  /\ batches' = batches + 1
  /\ workers' = [i \in 1..Len(file_paths) |-> NewWorker(file_paths[i], force_reprocess)]
  /\ UNCHANGED <<fsVars, dmVars, viVars, kbVars, rrfVars, index_file, raceVars, query_result, llmVars, mode_call, serviceVars>>

CheckCache(i) ==
  /\ workers[i].pc = "check_cache"
  /\ LET w == workers[i]
     IN workers' =
          [workers EXCEPT ![i] =
             IF ~w.force /\ is_document_cached(DM, files, enable_cache, w.path)
             THEN [w EXCEPT !.pc = "done", !.chunks = load_cached_chunks(DM, w.path)]
             ELSE IF ~files[w.path].exists \/ Suffix(w.path) \notin supported_formats
             THEN [w EXCEPT !.pc = "raised"]
             ELSE [w EXCEPT !.pc = "parse"]]
  /\ UNCHANGED <<fsVars, dmVars, viVars, kbVars, rrfVars, index_file, batches, raceVars, query_result, llmVars, mode_call, serviceVars>>

ParseDocument(i) ==
  /\ workers[i].pc = "parse"
  /\ \E chunks \in {Processor(workers[i].path, files[workers[i].path].content)} :
       workers' = [workers EXCEPT
                     ![i].chunks = chunks,
                     ![i].metadata = MakeMetadata(files, workers[i].path, chunks, TRUE),
                     ![i].pc = IF enable_cache THEN "write_blob" ELSE "done"]
  /\ UNCHANGED <<fsVars, dmVars, viVars, kbVars, rrfVars, index_file, batches, raceVars, query_result, llmVars, mode_call, serviceVars>>

WriteBlob(i) ==
  /\ workers[i].pc = "write_blob"
  /\ \E saved \in {save_chunks_to_cache(DM, enable_cache, workers[i].path,
                                        workers[i].chunks, workers[i].metadata)} :
       /\ chunk_blobs' = saved.blobs
       /\ clock' = saved.clock
  /\ workers' = [workers EXCEPT ![i].pc = "update_index"]
  /\ UNCHANGED <<files, file_ops, enable_cache, document_index, last_call,
                 saved_chunks, viVars, kbVars, rrfVars, index_file, batches, raceVars, query_result, llmVars, mode_call, serviceVars>>

UpdateIndex(i) ==
  /\ workers[i].pc = "update_index"
  /\ document_index' = Put(document_index, workers[i].path, workers[i].metadata)
  /\ workers' = [workers EXCEPT ![i].pc = "snapshot_index"]
  /\ UNCHANGED <<fsVars, enable_cache, chunk_blobs, last_call, saved_chunks, viVars,
                 kbVars, rrfVars, index_file, batches, raceVars, query_result, llmVars, mode_call, serviceVars>>

SnapshotIndex(i) ==
  /\ workers[i].pc = "snapshot_index"
  /\ workers' = [workers EXCEPT ![i].data = document_index,
                                ![i].pc = "open_index_file"]
  /\ UNCHANGED <<fsVars, dmVars, viVars, kbVars, rrfVars, index_file, batches, raceVars, query_result, llmVars, mode_call, serviceVars>>

\* open(index_file, 'w') empties the file; a thread that is writing it at that
\* moment and the one that opens it write into the same file
OpenIndexFile(i) ==
  /\ workers[i].pc = "open_index_file"
  /\ index_file' = [intact |-> FALSE, data |-> EmptyDict]
  /\ workers' =
       [j \in DOMAIN workers |->
          IF j = i
          THEN [workers[i] EXCEPT
                  !.pc = "write_index_file",
                  !.overlapped = \E n \in DOMAIN workers :
                                    workers[n].pc = "write_index_file"]
          ELSE IF workers[j].pc = "write_index_file"
               THEN [workers[j] EXCEPT !.overlapped = TRUE]
               ELSE workers[j]]
  /\ UNCHANGED <<fsVars, dmVars, viVars, kbVars, rrfVars, batches, raceVars, query_result, llmVars, mode_call, serviceVars>>

\* json.dump(data, f) and the close: two threads that wrote the file at the same
\* time leave either a well-formed file or an unreadable one
WriteIndexFile(i) ==
  /\ workers[i].pc = "write_index_file"
  /\ \E intact \in (IF workers[i].overlapped THEN BOOLEAN ELSE {TRUE}) :
       index_file' = [intact |-> intact, data |-> workers[i].data]
  /\ workers' = [workers EXCEPT ![i].pc = "done"]
  /\ UNCHANGED <<fsVars, dmVars, viVars, kbVars, rrfVars, batches, raceVars, query_result, llmVars, mode_call, serviceVars>>

\* a collection loop that the exception of a future ends
Collected_until_exception(ws) ==
  {i \in DOMAIN ws : \A j \in 1..i : ws[j].pc # "raised"}

\* for future in as_completed(future_to_path): every future is taken
Collected(ws) == DOMAIN ws

\* results[file_path] = chunks, and results[file_path] = [] in the except clause
BatchResults(ws) ==
  [p \in {ws[i].path : i \in Collected(ws)} |->
     IF \E i \in Collected(ws) : ws[i].path = p /\ ws[i].pc = "raised" THEN <<>>
     ELSE ws[CHOOSE i \in Collected(ws) : ws[i].path = p].chunks]

\* how the future of each path ended
FutureOutcomes(ws) ==
  [p \in {ws[i].path : i \in DOMAIN ws} |->
     LET w == ws[CHOOSE i \in DOMAIN ws : ws[i].path = p]
     IN IF w.pc = "raised" THEN "raised"
        ELSE IF w.metadata # <<>> THEN "parsed" ELSE "cached"]

\* all futures are collected and batch_process_documents returns
ReturnBatch ==
  /\ workers # <<>>
  /\ \A i \in DOMAIN workers : Finished(workers[i])
  /\ workers' = <<>>
  /\ last_call' = [NoCall EXCEPT
                     !.op = "batch_process_documents",
                     !.force = workers[1].force,
                     !.outcome = "processed",
                     !.parsed = \E i \in DOMAIN workers : workers[i].metadata # <<>>,
                     !.paths = [i \in DOMAIN workers |-> workers[i].path],
                     !.results = BatchResults(workers),
                     !.futures = FutureOutcomes(workers)]
  /\ UNCHANGED <<fsVars, enable_cache, document_index, chunk_blobs, saved_chunks,
                 viVars, kbVars, rrfVars, index_file, batches, raceVars, query_result, llmVars, mode_call, serviceVars>>

NextBatch ==
  \/ \E s \in BatchSeqs, f \in BOOLEAN : SubmitBatch(s, f)
  \/ \E i \in DOMAIN workers : CheckCache(i)
  \/ \E i \in DOMAIN workers : ParseDocument(i)
  \/ \E i \in DOMAIN workers : WriteBlob(i)
  \/ \E i \in DOMAIN workers : UpdateIndex(i)
  \/ \E i \in DOMAIN workers : SnapshotIndex(i)
  \/ \E i \in DOMAIN workers : OpenIndexFile(i)
  \/ \E i \in DOMAIN workers : WriteIndexFile(i)
  \/ ReturnBatch

SpecBatch == InitWith(InitFiles, {TRUE}) /\ [][NextBatch]_vars

\* a step of a pool thread, or the return of the batch
PoolStep ==
  \/ \E i \in DOMAIN workers :
        \/ CheckCache(i) \/ ParseDocument(i) \/ WriteBlob(i) \/ UpdateIndex(i)
        \/ SnapshotIndex(i) \/ OpenIndexFile(i) \/ WriteIndexFile(i)
  \/ ReturnBatch

\* one call of batch_process_documents, made after single documents were
\* processed and a source file was removed
WarmCache(p) ==
  /\ workers = <<>>
  /\ batches = 0
  /\ ProcessDocument(p, FALSE, TRUE)

SourceRemoved(p) ==
  /\ workers = <<>>
  /\ batches = 0
  /\ DeleteFile(p)

FirstBatch(file_paths, force_reprocess) ==
  /\ batches = 0
  /\ SubmitBatch(file_paths, force_reprocess)

NextPool ==
  \/ \E p \in EditedPaths : WarmCache(p)
  \/ \E p \in EditedPaths : SourceRemoved(p)
  \/ \E s \in BatchSeqs, f \in BOOLEAN : FirstBatch(s, f)
  \/ \E i \in DOMAIN workers : CheckCache(i)
  \/ \E i \in DOMAIN workers : ParseDocument(i)
  \/ \E i \in DOMAIN workers : WriteBlob(i)
  \/ \E i \in DOMAIN workers : UpdateIndex(i)
  \/ \E i \in DOMAIN workers : SnapshotIndex(i)
  \/ \E i \in DOMAIN workers : OpenIndexFile(i)
  \/ \E i \in DOMAIN workers : WriteIndexFile(i)
  \/ ReturnBatch

\* the pool threads keep running and the caller waits for them in the with block
SpecPool == InitWith(InitFiles, {TRUE}) /\ [][NextPool]_vars /\ WF_vars(PoolStep)

(* ---------------- the thread pool: properties ---------------- *)
\* the thread has changed the index dict and has not finished writing the index file
InIndexMutation(w) == w.pc \in {"snapshot_index", "open_index_file", "write_index_file"}

\* C14: no two cache-index mutations run at the same time: while a batch runs
\* on the pool, at most one thread is inside an operation that mutates the
\* index or writes the index file.
C14_SerializedIndexMutation ==
  Cardinality({i \in DOMAIN workers : InIndexMutation(workers[i])}) <= 1


\* the entries of the batch that has just returned: one per input path, [] for a future that
\* raised; a source whose file is there did not raise, has chunks, and has the
\* chunks of its parser when it was parsed in this batch
BatchEntries ==
  last_call.op = "batch_process_documents"
    => \A n \in DOMAIN last_call.paths :
         LET p == last_call.paths[n]
         IN /\ p \in DOMAIN last_call.results
            /\ last_call.futures[p] = "raised" => last_call.results[p] = <<>>
            /\ ~files[p].exists => last_call.futures[p] = "raised"
            /\ files[p].exists
                 => /\ last_call.futures[p] # "raised"
                    /\ last_call.results[p] # <<>>
                    /\ last_call.futures[p] = "parsed"
                         => last_call.results[p] = Processor(p, files[p].content)

\* C26: batch_process_documents terminates with a result entry for every input
\* path; a source whose processing raises gets an empty chunk list, and every
\* other source of the batch is processed and returned with its chunks
C26_BatchIsolation ==
  /\ [][ReturnBatch => BatchEntries']_vars
  /\ (workers # <<>>) ~> (workers = <<>>)

\* a batch returned in which one source raised and the other was parsed
\* a batch returned in which one source was served from the cache
CachedFutureSeen ==
  /\ last_call.op = "batch_process_documents"
  /\ \E p \in DOMAIN last_call.futures : last_call.futures[p] = "cached"

C26_Witness ==
  /\ last_call.op = "batch_process_documents"
  /\ workers = <<>>
  /\ \E p, q \in DOMAIN last_call.results :
       /\ last_call.futures[p] = "raised"
       /\ last_call.results[p] = <<>>
       /\ last_call.futures[q] = "parsed"
       /\ last_call.results[q] = Processor(q, files[q].content)

(* ---------------- a query that runs while add_documents runs ---------------- *)
\* The thread in _add_documents_impl; its pc names the statement it executes next:
\*   extend_documents  new_ids = [...]; self.documents.extend(texts)
\*   extend_metadata   self.doc_metadata.extend(metadata)
\*   extend_ids        self.document_ids.extend(new_ids)
\*   encode            new_embeddings = self.embedding_model.encode(texts)
\*   stack             self.doc_embeddings = new_embeddings or np.vstack(...)
\* The thread in query / _query_impl:
\*   guard             if not self.documents or self.doc_embeddings is None
\*   read_embeddings   cosine_similarity(query_embedding, self.doc_embeddings)
\*   read_entries      the loop that reads documents, doc_metadata, document_ids
AdderActive == adder.pc \notin {"idle", "done"}
ReaderActive == reader.pc \notin {"idle", "done"}

\* the index as the add in progress found it and as it leaves it
AddBefore == adder.before
AddAfter == add_documents(adder.before, adder.texts, adder.metadata, TRUE).vi

StartAdd(batch) ==
  /\ ~AdderActive
  /\ adder.adds < MaxRaceAdds
  /\ batch # <<>>
  /\ adder' = [pc |-> "extend_documents", adds |-> adder.adds + 1,
               texts |-> [i \in 1..Len(batch) |-> batch[i].text],
               metadata |-> [i \in 1..Len(batch) |-> batch[i].metadata],
               new_ids |-> <<>>, new_embeddings |-> <<>>, before |-> VI]
  /\ reader' = IF ReaderActive
               THEN [reader EXCEPT !.overlaps = @ + 1, !.before = VI,
                                   !.after = add_documents(VI, adder'.texts,
                                                           adder'.metadata, TRUE).vi]
               ELSE reader
  /\ UNCHANGED <<fsVars, dmVars, viVars, kbVars, rrfVars, threadVars, query_result, llmVars, mode_call, serviceVars>>

ExtendDocuments ==
  /\ adder.pc = "extend_documents"
  /\ adder' = [adder EXCEPT
                 !.pc = "extend_metadata",
                 !.new_ids = [i \in 1..Len(adder.texts) |->
                                DocId(Len(documents) + i - 1)]]
  /\ documents' = documents \o adder.texts
  /\ UNCHANGED <<fsVars, dmVars, doc_metadata, document_ids, doc_embeddings, vi_call,
                 kbVars, rrfVars, threadVars, reader, query_result, llmVars, mode_call, serviceVars>>

ExtendMetadata ==
  /\ adder.pc = "extend_metadata"
  /\ adder' = [adder EXCEPT !.pc = "extend_ids"]
  /\ doc_metadata' = doc_metadata \o adder.metadata
  /\ UNCHANGED <<fsVars, dmVars, documents, document_ids, doc_embeddings, vi_call,
                 kbVars, rrfVars, threadVars, reader, query_result, llmVars, mode_call, serviceVars>>

ExtendIds ==
  /\ adder.pc = "extend_ids"
  /\ adder' = [adder EXCEPT !.pc = "encode"]
  /\ document_ids' = document_ids \o adder.new_ids
  /\ UNCHANGED <<fsVars, dmVars, documents, doc_metadata, doc_embeddings, vi_call,
                 kbVars, rrfVars, threadVars, reader, query_result, llmVars, mode_call, serviceVars>>

EncodeTexts ==
  /\ adder.pc = "encode"
  /\ adder' = [adder EXCEPT !.pc = "stack", !.new_embeddings = Encode(adder.texts)]
  /\ UNCHANGED <<fsVars, dmVars, viVars, kbVars, rrfVars, threadVars, reader, query_result, llmVars, mode_call, serviceVars>>

StackEmbeddings ==
  /\ adder.pc = "stack"
  /\ adder' = [adder EXCEPT !.pc = "done"]
  /\ doc_embeddings' = doc_embeddings \o adder.new_embeddings
  /\ UNCHANGED <<fsVars, dmVars, documents, doc_metadata, document_ids, vi_call,
                 kbVars, rrfVars, threadVars, reader, query_result, llmVars, mode_call, serviceVars>>

NothingSeen == [documents |-> <<>>, doc_metadata |-> <<>>, document_ids |-> <<>>,
                doc_embeddings |-> <<>>]

StartQuery ==
  /\ ~ReaderActive
  /\ reader' = [pc |-> "guard", seen |-> NothingSeen,
                overlaps |-> IF AdderActive THEN 1 ELSE 0,
                before |-> IF AdderActive THEN AddBefore ELSE VI,
                after |-> IF AdderActive THEN AddAfter ELSE VI]
  /\ UNCHANGED <<fsVars, dmVars, viVars, kbVars, rrfVars, threadVars, adder, query_result, llmVars, mode_call, serviceVars>>

\* the early return of query: nothing stored yet
QueryGuard ==
  /\ reader.pc = "guard"
  /\ reader' = IF documents = <<>> \/ doc_embeddings = <<>>
               THEN [reader EXCEPT !.pc = "done",
                                   !.seen = [NothingSeen EXCEPT
                                               !.documents = documents,
                                               !.doc_embeddings = doc_embeddings]]
               ELSE [reader EXCEPT !.pc = "read_embeddings"]
  /\ UNCHANGED <<fsVars, dmVars, viVars, kbVars, rrfVars, threadVars, adder, query_result, llmVars, mode_call, serviceVars>>

ReadEmbeddings ==
  /\ reader.pc = "read_embeddings"
  /\ reader' = [reader EXCEPT !.pc = "read_entries",
                              !.seen.doc_embeddings = doc_embeddings]
  /\ UNCHANGED <<fsVars, dmVars, viVars, kbVars, rrfVars, threadVars, adder, query_result, llmVars, mode_call, serviceVars>>

ReadEntries ==
  /\ reader.pc = "read_entries"
  /\ reader' = [reader EXCEPT !.pc = "done",
                              !.seen.documents = documents,
                              !.seen.doc_metadata = doc_metadata,
                              !.seen.document_ids = document_ids]
  /\ UNCHANGED <<fsVars, dmVars, viVars, kbVars, rrfVars, threadVars, adder, query_result, llmVars, mode_call, serviceVars>>

NextRace ==
  \/ \E b \in IndexBatches : StartAdd(b)
  \/ ExtendDocuments
  \/ ExtendMetadata
  \/ ExtendIds
  \/ EncodeTexts
  \/ StackEmbeddings
  \/ StartQuery
  \/ QueryGuard
  \/ ReadEmbeddings
  \/ ReadEntries

SpecRace == InitWith(InitFiles, {TRUE}) /\ [][NextRace]_vars

(* ---------------- query during add: properties ---------------- *)
\* C15: a query that runs concurrently with one add sees the four containers
\* either all as they were before the append or all as they are after it.
C15_QuerySeesNoPartialAppend ==
  (reader.pc = "done" /\ reader.overlaps = 1 /\ reader.seen.doc_embeddings # <<>>)
    => reader.seen \in {reader.before, reader.after}


(* ---------------- query: properties ---------------- *)
\* the stored row a result was taken from (ids are "doc_<row - 1>")
RowOf(result) == CHOOSE row \in 1..Len(document_ids) : DocId(row - 1) = result.id

\* similarity between the query and the stored entry of a row
EntrySimilarity(q, row) == q.sim_of[documents[row]]

\* the row is one of the n stored entries most similar to the query
AmongMostSimilar(q, row, n) ==
  Cardinality({i \in 1..Len(documents) :
                 EntrySimilarity(q, i) > EntrySimilarity(q, row)}) < n

QueryContract(q) ==
  /\ Len(q.results) <= q.top_k
  /\ \A r \in 1..Len(q.results) :
       /\ RowOf(q.results[r]) \in 1..Len(documents)
       /\ q.results[r].text = documents[RowOf(q.results[r])]
       /\ AmongMostSimilar(q, RowOf(q.results[r]), 2 * q.top_k)
       /\ q.filter_type # "" => DocType(q.results[r].metadata) = q.filter_type
  /\ \A r, t \in 1..Len(q.results) :
       r < t => q.results[r].similarity >= q.results[t].similarity
  /\ documents = <<>> => q.results = <<>>

\* C20: query returns at most top_k results, all taken from the 2 * top_k
\* stored entries most similar to the query, all of the filter type when one
\* is given, in descending similarity order; on an empty index it returns [].
C20_QueryContract ==
  [][query_result'.serial # query_result.serial => QueryContract(query_result')]_vars

\* every embedding row is the embedding of the text stored in the same row
IndexAligned ==
  /\ Len(doc_embeddings) = Len(documents)
  /\ \A i \in 1..Len(documents) : doc_embeddings[i] = Encode(<<documents[i]>>)[1]

\* the contract of query on an index whose rows are aligned (no add has failed)
QueryContractOnAlignedIndex ==
  [][(query_result'.serial # query_result.serial /\ IndexAligned)
       => QueryContract(query_result')]_vars

AlignedQueryReached ==
  /\ query_result.called
  /\ IndexAligned
  /\ Len(documents) = 3
  /\ query_result.top_k = 1
  /\ query_result.filter_type = "table"
  /\ Len(query_result.results) = 1

(* ---------------- actions: the LLM interface ---------------- *)
\* the keys handed to set_model, test_model and get_model_config
ModelKeys ==
  {"qwen2.5-72b", "qwen2.5-7b", "glm4.5", "qwen2.5-7b-local", "nonexistent-model"}

\* the models whose backend may answer when generate falls back to them
GoodSets == SUBSET {"qwen2.5-72b", "qwen2.5-7b-local"}

\* the custom registrations: a key of the default registry and a new key
CustomKeys == {"qwen2.5-7b", "custom-model"}
CustomConfigs == {ModelConfig("qwen2.5:7b", "Ollama")}

LlmCall(op, model_key) ==
  [NoLlmCall EXCEPT !.op = op, !.serial = 1 - llm_call.serial,
                    !.model_key = model_key, !.before = llm.current_backend,
                    !.registry_ops = llm_call.registry_ops]

SetModel(model_key, pull_ok) ==
  /\ \E r \in {set_model(llm, model_key, pull_ok)} :
       /\ llm' = r.llm
       /\ llm_call' = [LlmCall("set_model", model_key) EXCEPT !.returned = r.returned]
  /\ UNCHANGED <<programVars, mode_call, serviceVars>>

Generate(outcome, good) ==
  /\ \E r \in {generate(llm, outcome, good)} :
       /\ llm' = r.llm
       /\ llm_call' = [LlmCall("generate", "") EXCEPT !.raised = r.raised,
                                                      !.result = r.result]
  /\ UNCHANGED <<programVars, mode_call, serviceVars>>

ResetStats ==
  /\ llm' = reset_stats(llm)
  /\ llm_call' = LlmCall("reset_stats", "")
  /\ UNCHANGED <<programVars, mode_call, serviceVars>>

TestModel(model_key, pull_ok, outcome, good) ==
  /\ \E r \in {test_model(llm, model_key, pull_ok, outcome, good)} :
       /\ llm' = r.llm
       /\ llm_call' = [LlmCall("test_model", model_key) EXCEPT !.returned = r.success]
  /\ UNCHANGED <<programVars, mode_call, serviceVars>>

GetModelConfig(model_key) ==
  /\ llm_call' = [LlmCall("get_model_config", model_key) EXCEPT
                    !.config = get_model_config(llm.model_manager.available_models,
                                                model_key)]
  /\ UNCHANGED <<llm, programVars, mode_call, serviceVars>>

AddCustomModel(model_type, model_key, config) ==
  /\ llm_call.registry_ops < MaxRegistryOps
  /\ llm' = [llm EXCEPT !.model_manager =
                          add_custom_model(@, model_type, model_key, config)]
  /\ llm_call' = [LlmCall("add_custom_model", model_key) EXCEPT
                    !.registry_ops = @ + 1]
  /\ UNCHANGED <<programVars, mode_call, serviceVars>>

RemoveModel(model_key) ==
  /\ llm_call.registry_ops < MaxRegistryOps
  /\ llm' = [llm EXCEPT !.model_manager = remove_model(@, model_key)]
  /\ llm_call' = [LlmCall("remove_model", model_key) EXCEPT !.registry_ops = @ + 1]
  /\ UNCHANGED <<programVars, mode_call, serviceVars>>

NextLLM ==
  \/ \E k \in ModelKeys \cup CustomKeys, pull_ok \in BOOLEAN : SetModel(k, pull_ok)
  \/ \E outcome \in Outcomes, good \in GoodSets : Generate(outcome, good)
  \/ ResetStats
  \/ \E k \in {"", "qwen2.5-72b", "qwen2.5-7b-local"}, outcome \in Outcomes :
       TestModel(k, FALSE, outcome, {})
  \/ \E k \in ModelKeys \cup CustomKeys : GetModelConfig(k)
  \/ \E t \in {"remote", "local"}, k \in CustomKeys, c \in CustomConfigs :
       AddCustomModel(t, k, c)
  \/ \E k \in CustomKeys : RemoveModel(k)

\* the interfaces that can be built: each key there or not, Ollama down, up with
\* no model, or up with qwen2.5:7b installed
Interfaces ==
  {EnhancedLLMInterfaceV2(a, g, o[1], o[2]) :
     a \in BOOLEAN, g \in BOOLEAN,
     o \in {<<FALSE, {}>>, <<TRUE, {}>>, <<TRUE, {"qwen2.5:7b"}>>}}

InitLLM ==
  /\ InitProgram(InitFiles, {TRUE})
  /\ llm \in Interfaces
  /\ llm_call = NoLlmCall

SpecLLM == InitLLM /\ [][NextLLM]_vars

(* ---------------- the LLM interface: properties ---------------- *)
\* the registry has model_key under model_type with this config
Registered(available_models, model_type, model_key, config) ==
  \E i \in 1..Len(available_models[model_type]) :
    available_models[model_type][i] = [key |-> model_key, config |-> config]

RegisteredSomewhere(available_models, model_key) ==
  \E t \in {"remote", "local"} : HasKey(available_models[t], model_key)

\* C28: generate never raises; it returns a result whose content is empty and
\* whose error is set when generation did not succeed, and with no model set
\* the error says so
C28_GenerateNeverRaises ==
  llm_call.op = "generate"
    => /\ llm_call.raised = ""
       /\ llm_call.result.content = "" <=> llm_call.result.error # ""
       /\ llm_call.before = NoBackend => llm_call.result.error = "no model set"

\* a generate call that raised
GenerateRaised == llm_call.op = "generate" /\ llm_call.raised # ""

\* generate returns normally as long as reset_stats has not been called
GenerateReturnsBeforeReset ==
  (llm_call.op = "generate" /\ llm.generation_stats = InitialStatsKeys)
    => llm_call.raised = ""

\* the backend of a registered model can be used: the key of its provider is
\* there, or Ollama runs and has the model (installed before, or pulled by the call)
Usable(l, model_type, config) ==
  IF model_type = "remote"
  THEN IF config.provider = "GLM" THEN l.glm_api_key ELSE l.api_key
  ELSE /\ l.ollama_interface.available
       /\ config.name \in l.ollama_interface.installed

\* C29: set_model succeeds only for a registered model whose backend is usable;
\* then current_backend has the key and the type it is registered under; a
\* failed set_model returns False and leaves current_backend as it was
C29_SetModel ==
  llm_call.op = "set_model"
    => /\ llm_call.returned
            => /\ RegisteredSomewhere(llm.model_manager.available_models,
                                      llm_call.model_key)
               /\ llm.current_backend.key = llm_call.model_key
               /\ Registered(llm.model_manager.available_models,
                             llm.current_backend.type, llm_call.model_key,
                             llm.current_backend.config)
               /\ Usable(llm, llm.current_backend.type, llm.current_backend.config)
       /\ ~llm_call.returned => llm.current_backend = llm_call.before

\* a registered model was refused while another model was current, and a
\* model was accepted
C29_Witness ==
  /\ llm_call.op = "set_model"
  /\ ~llm_call.returned
  /\ RegisteredSomewhere(llm.model_manager.available_models, llm_call.model_key)
  /\ llm_call.before # NoBackend
  /\ llm.current_backend = llm_call.before

SetModelSucceeded ==
  /\ llm_call.op = "set_model"
  /\ llm_call.returned
  /\ llm.current_backend.key = llm_call.model_key
  /\ llm.current_backend.type = "local"

\* C30: get_model_config returns the (type, config) pair the key is registered
\* under and None for a key no type has; in the default registry 'qwen2.5-72b'
\* is remote with provider ModelScope and 'qwen2.5-7b' is local with provider
\* Ollama
C30_GetModelConfig ==
  llm_call.op = "get_model_config"
    => /\ llm_call.config # None
            => Registered(llm.model_manager.available_models, llm_call.config[1],
                          llm_call.model_key, llm_call.config[2])
       /\ llm_call.config = None
            <=> ~RegisteredSomewhere(llm.model_manager.available_models,
                                     llm_call.model_key)
       /\ (llm_call.registry_ops = 0 /\ llm_call.model_key = "qwen2.5-72b")
            => /\ llm_call.config # None
               /\ llm_call.config[1] = "remote"
               /\ llm_call.config[2].provider = "ModelScope"
       /\ (llm_call.registry_ops = 0 /\ llm_call.model_key = "qwen2.5-7b")
            => /\ llm_call.config # None
               /\ llm_call.config[1] = "local"
               /\ llm_call.config[2].provider = "Ollama"

\* the lookup itself: the pair the key is registered under, else None
GetModelConfigLookup ==
  llm_call.op = "get_model_config"
    => /\ llm_call.config # None
            => Registered(llm.model_manager.available_models, llm_call.config[1],
                          llm_call.model_key, llm_call.config[2])
       /\ llm_call.config = None
            <=> ~RegisteredSomewhere(llm.model_manager.available_models,
                                     llm_call.model_key)

(* ---------------- the retrieval modes ---------------- *)
\* An enhanced_query call meets an environment env: sim, sim_rewritten and
\* sim_hyde give the similarity of every stored text to the query, to the
\* rewritten query and to the hypothetical document; ties and encode_ok are
\* those of query; rewrite_outcome, hyde_outcome and answer_outcome are what the
\* backend does in the three generation calls; web is what the web search does.

\* the features of the query text that _analyze_query_complexity reads:
\* len(query.split()), query.count('?') and the three keyword families.
PlainQuery ==
  [words |-> 5, question_marks |-> 0, has_comparison |-> FALSE,
   has_analysis |-> FALSE, has_synthesis |-> FALSE]

\* _analyze_query_complexity: complexity_score in tenths (0.2 is 2)
analyze_query_complexity(q) ==
  LET score == (IF q.words > 10 THEN 2 ELSE 0)
               + (IF q.question_marks > 1 THEN 3 ELSE 0)
               + (IF q.has_comparison THEN 2 ELSE 0)
               + (IF q.has_analysis THEN 2 ELSE 0)
               + (IF q.has_synthesis THEN 3 ELSE 0)
  IN IF score < 10 THEN score ELSE 10

\* a routing that sends a score of exactly 0.3 to quick retrieval
SmartRoute_low_threshold_inclusive(complexity_score) ==
  IF complexity_score <= 3 THEN "quick"
  ELSE IF complexity_score < 7 THEN "deep"
  ELSE "topic"

\* _smart_retrieval_v2: the retrieval the score selects
SmartRoute(complexity_score) ==
  IF complexity_score < 3 THEN "quick"
  ELSE IF complexity_score < 7 THEN "deep"
  ELSE "topic"

\* V1 EnhancedLLMInterface.generate never raises: it returns the generated text,
\* or after its retries a sentence that starts with the apology
generate_v1(outcome) == IF outcome = "ok" THEN "text" ELSE "apology"

\* _query_rewriting and _hyde_generation: the generated text is used when the
\* call succeeded, otherwise the text they were given is returned
GenerationUsed(version, l, outcome) ==
  IF version = "v1" THEN generate_v1(outcome) = "text"
  ELSE \E r \in {generate(l, outcome, {})} : r.raised = "" /\ r.result.error = ""

\* the V2 interface after a generation call of a mode; the V1 system has an
\* interface of its own
AfterGenerate(version, l, outcome) ==
  IF version = "v1" THEN l ELSE generate(l, outcome, {}).llm

\* the final llm.generate of a mode and the 'final_answer' built from it:
\* [raised, final_answer, llm]
FinalAnswer(version, l, outcome) ==
  IF version = "v1"
  THEN [raised |-> "", final_answer |-> generate_v1(outcome), llm |-> l]
  ELSE LET r == generate(l, outcome, {})
       IN IF r.raised # ""
          THEN [raised |-> r.raised, final_answer |-> "", llm |-> r.llm]
          ELSE IF r.result.error = ""
          THEN [raised |-> "", final_answer |-> r.result.content, llm |-> r.llm]
          ELSE [raised |-> "", final_answer |-> "generation failed", llm |-> r.llm]

\* the arguments of one vector_retriever.query call
QueryArgs(text, top_k, filter_type) ==
  [text |-> text, top_k |-> top_k, filter_type |-> filter_type]

SimOf(env, text) ==
  CASE text = "original" -> env.sim
    [] text = "rewritten" -> env.sim_rewritten
    [] text = "hyde" -> env.sim_hyde

Retrieve(vi, env, args) ==
  query(vi, SimOf(env, args.text), args.top_k, args.filter_type, env.ties,
        env.encode_ok)

\* what a mode that found the interface l did and reports back; error "" is a
\* dict without the key 'error'
ModeResult(l) ==
  [raised |-> "", error |-> "", queries |-> <<>>, all_results |-> <<>>,
   retrieved_docs |-> <<>>, context |-> <<>>, generate_calls |-> 0,
   final_answer |-> "", pdf_block |-> FALSE, web_block |-> FALSE, llm |-> l]

\* _quick_retrieval and _quick_retrieval_v2
quick_retrieval(version, vi, l, env) ==
  LET args == QueryArgs("original", 3, "text")
      retrieved_docs == Retrieve(vi, env, args)
      answer == FinalAnswer(version, l, env.answer_outcome)
  IN IF retrieved_docs = <<>>
     THEN [ModeResult(l) EXCEPT !.queries = <<args>>, !.error = "no documents found"]
     ELSE [ModeResult(l) EXCEPT !.queries = <<args>>,
                             !.retrieved_docs = retrieved_docs,
                             !.context = retrieved_docs,
                             !.generate_calls = 1,
                             !.raised = answer.raised,
                             !.final_answer = answer.final_answer,
                             !.llm = answer.llm]

\* a deep retrieval that leaves the filtered result lists out of the fusion
AppendIfAny_leaves_out(all_results, results) == all_results

\* if image_results: all_results.append(image_results)
AppendIfAny(all_results, results) ==
  IF results # <<>> THEN Append(all_results, results) ELSE all_results

FirstN(seq, n) == SubSeq(seq, 1, IF Len(seq) < n THEN Len(seq) ELSE n)

\* the five queries of deep retrieval in the order they are issued
DeepQueries(rewritten_query, hyde_doc) ==
  <<QueryArgs("original", 5, ""), QueryArgs(rewritten_query, 5, ""),
    QueryArgs(hyde_doc, 5, ""), QueryArgs("original", 3, "image"),
    QueryArgs("original", 3, "table")>>

\* steps 3 to 5 of _deep_retrieval and _deep_retrieval_v2
DeepFusion(version, vi, l, env, queries) ==
  LET all_results ==
        AppendIfAny(AppendIfAny(<<Retrieve(vi, env, queries[1]),
                                  Retrieve(vi, env, queries[2]),
                                  Retrieve(vi, env, queries[3])>>,
                                Retrieve(vi, env, queries[4])),
                    Retrieve(vi, env, queries[5]))
      final_docs == rrf_fusion(all_results, RrfK)
      answer == FinalAnswer(version, l, env.answer_outcome)
  IN [ModeResult(l) EXCEPT !.queries = queries,
                        !.all_results = all_results,
                        !.retrieved_docs = final_docs,
                        !.context = FirstN(final_docs, 5),
                        !.generate_calls = 3,
                        !.raised = answer.raised,
                        !.final_answer = answer.final_answer,
                        !.llm = answer.llm]

\* _deep_retrieval and _deep_retrieval_v2: steps 1 and 2, then the rest
deep_retrieval(version, vi, l, env) ==
  LET rewritten_query == IF GenerationUsed(version, l, env.rewrite_outcome)
                         THEN "rewritten" ELSE "original"
      rewritten == AfterGenerate(version, l, env.rewrite_outcome)
      hyde_doc == IF GenerationUsed(version, rewritten, env.hyde_outcome)
                  THEN "hyde" ELSE rewritten_query
  IN DeepFusion(version, vi, AfterGenerate(version, rewritten, env.hyde_outcome),
                env, DeepQueries(rewritten_query, hyde_doc))

\* research_topic never raises: the 'analysis' of its result is the analysis of
\* the pages, the sentence that starts with "未能获取" when no page had content,
\* or the text of _create_fallback_result when the search found nothing, no
\* page could be fetched or an exception was caught
WebOutcomes == {"ok", "empty pages", "no results", "exception"}
research_topic(web) ==
  CASE web = "ok" -> [analysis |-> "analysis", total_sources |-> 1]
    [] web = "empty pages" -> [analysis |-> "nothing obtained", total_sources |-> 1]
    [] OTHER -> [analysis |-> "fallback text", total_sources |-> 0]

\* if web_analysis and not web_analysis.startswith("未能获取")
UsesWebAnalysis(web_analysis) ==
  web_analysis # "" /\ web_analysis # "nothing obtained"

\* _topic_retrieval and _topic_retrieval_v2
topic_retrieval(version, vi, l, env) ==
  LET args == QueryArgs("original", 5, "")
      pdf_docs == Retrieve(vi, env, args)
      web_research_result == research_topic(env.web)
      answer == FinalAnswer(version, l, env.answer_outcome)
  IN [ModeResult(l) EXCEPT !.queries = <<args>>,
                        !.retrieved_docs = pdf_docs,
                        !.context = pdf_docs,
                        !.pdf_block = pdf_docs # <<>>,
                        !.web_block = UsesWebAnalysis(web_research_result.analysis),
                        !.generate_calls = 1,
                        !.raised = answer.raised,
                        !.final_answer = answer.final_answer,
                        !.llm = answer.llm]

\* the retrieval a mode name stands for; smart retrieval is a mode of V2 only
Route(version, mode, q) ==
  IF mode = "smart" /\ version = "v2" THEN SmartRoute(analyze_query_complexity(q))
  ELSE mode

\* _enhanced_query_impl and _enhanced_query_v2_impl: the mode is run and every
\* exception becomes a dict with the key 'error'
Dispatch(version, route, vi, l, env) ==
  CASE route = "quick" -> quick_retrieval(version, vi, l, env)
    [] route = "deep" -> deep_retrieval(version, vi, l, env)
    [] route = "topic" -> topic_retrieval(version, vi, l, env)
    [] OTHER -> [ModeResult(l) EXCEPT !.raised = "ValueError"]

enhanced_query_impl(version, mode, q, vi, l, env) ==
  LET r == Dispatch(version, Route(version, mode, q), vi, l, env)
  IN IF r.raised # ""
     THEN [r EXCEPT !.raised = "", !.error = "query failed",
                    !.retrieved_docs = <<>>, !.final_answer = ""]
     ELSE r

\* enhanced_query (V1) and enhanced_query_v2: RuntimeError when the knowledge
\* base is not initialized and, in V2, when no model is set
enhanced_query_modes(version, mode, q, kb, l, env) ==
  IF ~kb.initialized THEN [ModeResult(l) EXCEPT !.raised = "RuntimeError"]
  ELSE IF version = "v2" /\ l.current_backend = NoBackend
  THEN [ModeResult(l) EXCEPT !.raised = "RuntimeError"]
  ELSE enhanced_query_impl(version, mode, q, kb.vi, l, env)

(* ---------------- actions: the retrieval modes ---------------- *)
\* the knowledge base of the queries is built from a.txt, b.txt and a table
InitFilesModes ==
  InitFilesKB @@ ("t.csv" :> [exists |-> TRUE, content |-> 4, mtime |-> 0])

ModePaths == {"a.txt", "b.txt", "t.csv"}

\* the texts the index can hold
ModeTexts ==
  UNION {Range(ChunkTexts(Processor(p, InitFilesModes[p].content))) : p \in ModePaths}

\* a query that is similar to the texts of favoured and to no other text
SimFavour(favoured) == [t \in ModeTexts |-> IF t \in favoured THEN 1 ELSE 0]

Env(sim, sim_rewritten, sim_hyde, ties, encode_ok, outcomes, web) ==
  [sim |-> sim, sim_rewritten |-> sim_rewritten, sim_hyde |-> sim_hyde,
   ties |-> ties, encode_ok |-> encode_ok, rewrite_outcome |-> outcomes[1],
   hyde_outcome |-> outcomes[2], answer_outcome |-> outcomes[3], web |-> web]

\* what the retriever does in one call of a mode: the three query texts rank
\* the stored texts differently or alike, and the query-time encoding can fail
Retrievals ==
  {<<SimFavour({<<"x">>}), SimFavour({<<"z">>}), SimFavour({<<"y">>}), FALSE, TRUE>>,
   <<SimFavour({<<"x">>}), SimFavour({<<"x">>}), SimFavour({<<"x">>}), TRUE, TRUE>>,
   <<SimFavour({<<"x">>}), SimFavour({<<"x">>}), SimFavour({<<"x">>}), TRUE, FALSE>>}

\* what the backend does in the rewriting, the HyDE and the answer call; the
\* content filter is a response of the V2 remote backend only
GenerationOutcomes(version) ==
  {<<"ok", "ok", "ok">>, <<"error", "error", "error">>, <<"error", "ok", "ok">>,
   <<"ok", "error", "ok">>}
  \cup (IF version = "v2" THEN {<<"ok", "ok", "content_filter">>} ELSE {})

Versions == {"v1", "v2"}

\* the environments a query of each mode is run in
ModeEnvs(version, mode) ==
  {Env(r[1], r[2], r[3], r[4], r[5], o, w) :
     r \in Retrievals,
     o \in {g \in GenerationOutcomes(version) :
              mode = "deep" \/ (g[1] = "ok" /\ g[2] = "ok")},
     w \in IF mode = "topic" THEN WebOutcomes ELSE {"ok"}}

\* the query texts handed to smart retrieval: every combination of features
SmartQueries ==
  [words : {5, 11}, question_marks : {0, 2}, has_comparison : BOOLEAN,
   has_analysis : BOOLEAN, has_synthesis : BOOLEAN]

SmartEnv ==
  Env(SimFavour({<<"x">>}), SimFavour({<<"z">>}), SimFavour({<<"y">>}), FALSE, TRUE,
      <<"ok", "ok", "ok">>, "ok")

\* what the caller of enhanced_query sees
Reported(r) ==
  [raised |-> r.raised, error |-> r.error, queries |-> r.queries,
   all_results |-> r.all_results, retrieved_docs |-> r.retrieved_docs,
   context |-> r.context, generate_calls |-> r.generate_calls,
   final_answer |-> r.final_answer, pdf_block |-> r.pdf_block,
   web_block |-> r.web_block]

\* The interactive loop runs one operation at a time: a query is asked when
\* the result of the last one has been displayed.
\* enhanced_query(query, retrieval_mode) of the V1 system and enhanced_query_v2
\* of the V2 system on the knowledge base
ModeQuery(version, mode, q, env) ==
  /\ ~mode_call.called
  /\ \E r \in {enhanced_query_modes(version, mode, q, KB, llm, env)} :
        /\ mode_call' = [called |-> TRUE,
                         version |-> version, mode |-> mode,
                         route |-> Route(version, mode, q), q |-> q, env |-> env,
                         initialized |-> knowledge_base_initialized,
                         backend_set |-> llm.current_backend # NoBackend,
                         stats_reset |-> "content_filter_errors" \notin llm.generation_stats,
                         result |-> Reported(r)]
        /\ llm' = r.llm
  /\ UNCHANGED <<fsVars, dmVars, viVars, kbVars, rrfVars, threadVars, raceVars,
                 query_result, llm_call, serviceVars>>

QuickQuery(version, env) == ModeQuery(version, "quick", PlainQuery, env)
DeepQuery(version, env) == ModeQuery(version, "deep", PlainQuery, env)
TopicQuery(version, env) == ModeQuery(version, "topic", PlainQuery, env)
SmartQuery(q) == ModeQuery("v2", "smart", q, SmartEnv)

\* display_results and display_query_result_v2: the result is shown
DisplayQueryResult ==
  /\ mode_call.called
  /\ mode_call' = NoModeCall
  /\ UNCHANGED <<programVars, llmVars, serviceVars>>

\* the sources of setup_knowledge_base and of remove_documents_from_knowledge_base
ModeSourceLists ==
  {<<"a.txt">>, <<"b.txt", "b.txt">>, <<"a.txt", "b.txt", "t.csv">>}
ModeRemoveLists == {<<"a.txt">>, <<"b.txt">>}

ModeSetup(sources) ==
  /\ ~mode_call.called
  /\ SetupKnowledgeBase(sources, FALSE, TRUE)

ModeRemove(sources) ==
  /\ ~mode_call.called
  /\ RemoveFromKnowledgeBase(sources, TRUE)

\* the model is selected with the ModelScope token of the interface
ModeSetModel(model_key) ==
  /\ ~mode_call.called
  /\ SetModel(model_key, FALSE)

\* reset_stats of the user interface
ModeResetStats ==
  /\ ~mode_call.called
  /\ ResetStats

NextModes ==
  \/ \E sources \in ModeSourceLists : ModeSetup(sources)
  \/ \E sources \in ModeRemoveLists : ModeRemove(sources)
  \/ ModeSetModel("qwen2.5-72b")
  \/ ModeResetStats
  \/ \E version \in Versions : \E env \in ModeEnvs(version, "quick") :
        QuickQuery(version, env)
  \/ \E version \in Versions : \E env \in ModeEnvs(version, "deep") :
        DeepQuery(version, env)
  \/ \E version \in Versions : \E env \in ModeEnvs(version, "topic") :
        TopicQuery(version, env)
  \/ \E q \in SmartQueries : SmartQuery(q)
  \/ DisplayQueryResult

SpecModes == InitWith(InitFilesModes, {TRUE}) /\ [][NextModes]_vars

(* ---------------- properties: the retrieval modes ---------------- *)
\* C27: the complexity score of smart retrieval lies in [0,1] (0..10 tenths) and
\* is a function of the query text alone; the query is answered by quick
\* retrieval when the score is below 0.3, by deep retrieval when it is at least
\* 0.3 and below 0.7, and by topic retrieval when it is at least 0.7
C27_SmartRouting ==
  (mode_call.called /\ mode_call.mode = "smart")
    => \E score \in {analyze_query_complexity(mode_call.q)} :
         \E routed \in {IF score <= 2 THEN "quick"
                        ELSE IF score <= 6 THEN "deep" ELSE "topic"} :
            /\ score \in 0..10
            /\ mode_call.route = routed
            /\ mode_call.result
                 = Reported(enhanced_query_modes("v2", routed, mode_call.q, KB, llm,
                                                 mode_call.env))

\* a query with a score of exactly 0.3 was answered by the five queries of deep
\* retrieval
C27_Witness ==
  /\ mode_call.called
  /\ mode_call.mode = "smart"
  /\ analyze_query_complexity(mode_call.q) = 3
  /\ mode_call.route = "deep"
  /\ mode_call.result.error = ""
  /\ Len(mode_call.result.queries) = 5
  /\ mode_call.result.retrieved_docs # <<>>

\* smart retrieval reached topic retrieval with a score of 0.7 and of 1.0
SmartTopicReached ==
  /\ mode_call.called
  /\ mode_call.mode = "smart"
  /\ analyze_query_complexity(mode_call.q) \in {7, 10}
  /\ mode_call.route = "topic"
  /\ mode_call.result.error = ""

\* the query ran a retrieval: the knowledge base was initialized and, in V2, a
\* model was set
Ran(version, route) ==
  /\ mode_call.called
  /\ mode_call.version = version
  /\ mode_call.route = route
  /\ mode_call.initialized
  /\ version = "v2" => mode_call.backend_set

\* the result list of the query the mode issued n-th, on the index as it is
Retrieved(n) == Retrieve(VI, mode_call.env, mode_call.result.queries[n])

QuickContract(version) ==
  Ran(version, "quick")
    => /\ mode_call.result.queries = <<QueryArgs("original", 3, "text")>>
       /\ Retrieved(1) = <<>>
            => /\ mode_call.result.error = "no documents found"
               /\ mode_call.result.generate_calls = 0
       /\ Retrieved(1) # <<>>
            => /\ mode_call.result.error = ""
               /\ mode_call.result.retrieved_docs = Retrieved(1)

\* C22: quick retrieval issues exactly one index query (top_k 3, filter type
\* text); when the query returns nothing it reports the no-documents error
\* without calling the generation function, and otherwise it returns the
\* retrieved documents
C22_QuickMode == \A version \in Versions : QuickContract(version)

\* the same for the V1 system, and for the V2 system as long as reset_stats has
\* not been called
QuickContractWithoutReset ==
  /\ QuickContract("v1")
  /\ ~mode_call.stats_reset => QuickContract("v2")

\* a quick query found documents in both systems, and found none on an index
\* that holds a table only
QuickFoundDocuments ==
  /\ Ran("v2", "quick")
  /\ mode_call.mode = "quick"
  /\ Len(mode_call.result.retrieved_docs) = 3
  /\ mode_call.result.generate_calls = 1

QuickFoundNothing ==
  /\ Ran("v1", "quick")
  /\ documents # <<>>
  /\ mode_call.env.encode_ok
  /\ mode_call.result.error = "no documents found"

\* the result lists of the five queries that are not empty, in the order of
\* the queries
NonEmptyResults ==
  SelectSeq([n \in 1..Len(mode_call.result.queries) |-> Retrieved(n)],
            LAMBDA results : results # <<>>)

DeepContract(version) ==
  Ran(version, "deep")
    => \E fused \in {rrf_fusion(NonEmptyResults, RrfK)} :
          /\ \E rewritten_query \in {"original", "rewritten"} :
               \E hyde_doc \in {rewritten_query, "hyde"} :
                  mode_call.result.queries
                    = <<QueryArgs("original", 5, ""), QueryArgs(rewritten_query, 5, ""),
                        QueryArgs(hyde_doc, 5, ""), QueryArgs("original", 3, "image"),
                        QueryArgs("original", 3, "table")>>
          /\ rrf_fusion(mode_call.result.all_results, RrfK) = fused
          /\ mode_call.result.error = "" => mode_call.result.retrieved_docs = fused
          /\ \A i, j \in 1..Len(fused) : i < j => fused[i].rrf_score >= fused[j].rrf_score
          /\ Len(mode_call.result.context) <= 5
          /\ mode_call.result.context = SubSeq(fused, 1, Len(mode_call.result.context))
          /\ Len(mode_call.result.context) < 5 => mode_call.result.context = fused

DeepFusedNothing ==
  /\ Ran("v1", "deep")
  /\ mode_call.result.all_results = <<<<>>, <<>>, <<>>>>
  /\ mode_call.result.retrieved_docs = <<>>

\* the generation function is unavailable to the query: no backend was set, or
\* every generate call of the query failed
GenerationUnavailable ==
  \/ mode_call.version = "v2" /\ ~mode_call.backend_set
  \/ /\ mode_call.env.rewrite_outcome # "ok"
     /\ mode_call.env.hyde_outcome # "ok"
     /\ mode_call.env.answer_outcome # "ok"

\* the deep query did not fail and retrieved along the single path of the
\* original query
SinglePathFallback ==
  /\ mode_call.result.raised = ""
  /\ mode_call.result.error = ""
  /\ \A n \in 1..Len(mode_call.result.queries) :
        mode_call.result.queries[n].text = "original"
  /\ Len(mode_call.result.queries) >= 1
  /\ mode_call.result.retrieved_docs = rrf_fusion(NonEmptyResults, RrfK)
  /\ {doc.id : doc \in Range(Retrieved(1))}
       \subseteq {doc.id : doc \in Range(mode_call.result.retrieved_docs)}

\* C23: with the generation function unavailable (no backend set, or every
\* generate call failing) a deep query on an initialized knowledge base does
\* not fail: it retrieves with the original query only and returns the
\* retrieved documents
C23_DeepWithoutGeneration ==
  (mode_call.called /\ mode_call.mode = "deep" /\ mode_call.initialized
     /\ GenerationUnavailable)
    => SinglePathFallback

\* the same, for a generation function that is set and fails
DeepWithFailingGeneration ==
  (Ran("v1", "deep") \/ Ran("v2", "deep")) /\ GenerationUnavailable
    => SinglePathFallback

\* a deep query whose generate calls all failed returned documents
DeepFellBack ==
  /\ Ran("v2", "deep")
  /\ GenerationUnavailable
  /\ mode_call.result.retrieved_docs # <<>>
  /\ mode_call.result.final_answer = "generation failed"

\* the web research of the topic query failed: the search found nothing, no
\* page could be fetched, or an exception was caught
WebFailed == mode_call.env.web \in {"no results", "exception"}

\* the topic query returned an answer built from the document context
TopicAnswered ==
  /\ mode_call.result.raised = ""
  /\ mode_call.result.error = ""
  /\ mode_call.result.final_answer # ""
  /\ mode_call.result.retrieved_docs = Retrieved(1)
  /\ mode_call.result.pdf_block = (Retrieved(1) # <<>>)

\* C24: in topic retrieval a failure of the web research does not abort the
\* query: it returns an answer built from the document context, and the block
\* of web research content is left out of the combined context
C24_TopicWebFailure ==
  \A version \in Versions :
     Ran(version, "topic") /\ WebFailed /\ mode_call.env.answer_outcome = "ok"
       => /\ TopicAnswered
          /\ ~mode_call.result.web_block

\* what the code does: the query is answered, and the block of web research
\* content is left out only when the analysis starts with the nothing-obtained
\* sentence; the text of the fallback result is put into the context
TopicContext ==
  \A version \in Versions :
     Ran(version, "topic") /\ mode_call.env.answer_outcome = "ok"
       => /\ TopicAnswered
          /\ mode_call.result.web_block = (mode_call.env.web # "empty pages")

\* a topic query whose pages had no content left the web block out
TopicLeftWebOut ==
  /\ Ran("v1", "topic")
  /\ mode_call.env.web = "empty pages"
  /\ mode_call.result.pdf_block
  /\ ~mode_call.result.web_block

\* the query returned to its caller a ranked list that is not empty, or the
\* dict with the key 'error'
ResultsOrSignal ==
  \/ mode_call.result.retrieved_docs # <<>>
  \/ mode_call.result.error # ""

\* C25: every query that returns, in every mode and on every knowledge base,
\* reports a ranked result list that is not empty or an explicit
\* no-relevant-documents signal; it never returns a generated answer together
\* with an empty list of retrieved documents
C25_ResultsOrSignal ==
  (mode_call.called /\ mode_call.result.raised = "")
    => /\ ResultsOrSignal
       /\ ~(mode_call.result.final_answer # "" /\ mode_call.result.retrieved_docs = <<>>)

\* quick retrieval keeps to it
QuickResultsOrSignal ==
  (mode_call.called /\ mode_call.result.raised = "" /\ mode_call.route = "quick")
    => /\ ResultsOrSignal
       /\ ~(mode_call.result.final_answer # "" /\ mode_call.result.retrieved_docs = <<>>)

\* a deep query on an initialized knowledge base whose index is empty returned
\* an answer and no document
DeepAnswerWithoutDocuments ==
  /\ Ran("v1", "deep")
  /\ documents = <<>>
  /\ mode_call.result.error = ""
  /\ mode_call.result.retrieved_docs = <<>>
  /\ mode_call.result.final_answer = "text"

(* ---------------- actions: the knowledge base and its cache ---------------- *)
\* The interactive system sets up, extends and reduces the knowledge base and
\* clears the cache of its document manager; a.txt, b.txt and a.md are on disk,
\* a.txt and a.md with the same bytes.
StoreSetup(sources) == SetupKnowledgeBase(sources, FALSE, TRUE)

StoreAdd(new_sources) == AddToKnowledgeBase(new_sources, TRUE)

StoreRemove(sources_to_remove) == RemoveFromKnowledgeBase(sources_to_remove, TRUE)

\* document_manager.clear_cache(file_path) and document_manager.clear_cache()
StoreClear(p) == ClearCache(p)

StoreClearAll == ClearAllCache

NextStore ==
  \/ \E sources \in SourceLists : StoreSetup(sources)
  \/ \E sources \in SourceLists : StoreAdd(sources)
  \/ \E sources \in SourceLists : StoreRemove(sources)
  \/ \E p \in Paths : StoreClear(p)
  \/ StoreClearAll

SpecStore == InitWith(InitFiles, {TRUE}) /\ [][NextStore]_vars

(* ---------------- properties: the chunk store and the cache ---------------- *)
\* the blob file of the source's record is on disk
BlobOnDisk(source) ==
  /\ source \in DOMAIN document_index
  /\ document_index[source].file_hash \in DOMAIN chunk_blobs

\* the sources that have chunks in document_chunks_store
SourcesWithChunks ==
  {source \in DOMAIN document_chunks_store : document_chunks_store[source] # <<>>}

\* C31: in every reachable state each source that has chunks in the chunk
\* store still has its cache blob on disk
C31_ChunksHaveBlob == \A source \in SourcesWithChunks : BlobOnDisk(source)

\* the chunks of a source were in the store when the whole cache was cleared
ChunksOutliveBlob ==
  /\ last_call.op = "clear_cache"
  /\ last_call.path = ""
  /\ SourcesWithChunks # {}
  /\ chunk_blobs = EmptyDict

\* what holds instead: right after a setup or an add that did not fail, every
\* source it stored chunks for has its blob on disk
BlobOnDiskAfterProcessing ==
  [][\A sources \in SourceLists :
       (StoreSetup(sources) \/ StoreAdd(sources)) /\ kb_call'.ok
         => \A source \in Range(sources) :
               (source \in SourcesWithChunks' /\ source \notin SourcesWithChunks)
                 => BlobOnDisk(source)']_vars

\* C36: after any sequence of setup, add and remove operations the tracked
\* source list holds no path twice and names exactly the sources that have an
\* entry in the chunk store
C36_SourcesMatchStore ==
  /\ \A source \in Paths : Occurrences(source, current_sources) <= 1
  /\ Range(current_sources) = DOMAIN document_chunks_store

\* what holds instead: a source that add_documents_to_knowledge_base is given
\* is never appended to a list that already names it
AddKeepsSourcesDistinct ==
  [][\A new_sources \in SourceLists :
       StoreAdd(new_sources)
         => \A source \in Paths :
               Occurrences(source, current_sources') <= Occurrences(source, current_sources)
               \/ Occurrences(source, current_sources) = 0]_vars

\* the path is cached: its record and the blob of its record both exist
Cached(p) == BlobOnDisk(p)

\* clear_cache(p), or the removal of p from the knowledge base, has just run
Cleared(p) == StoreClear(p) \/ StoreRemove(<<p>>)

\* C38: clear_cache(path) and the removal of one source from the knowledge
\* base change the cache state of that path only: every other path that was
\* cached before the call is cached afterwards, also when its content hash
\* equals that of the cleared path
C38_ClearFrame ==
  [][\A p \in Paths :
       Cleared(p) => \A other \in Paths \ {p} : Cached(other) => Cached(other)']_vars

\* what holds instead: the other paths whose content hash differs from that
\* of the cleared path stay cached
ClearFrameOtherHash ==
  [][\A p \in Paths :
       Cleared(p)
         => \A other \in Paths \ {p} :
               (/\ Cached(other)
                /\ p \in DOMAIN document_index
                     => document_index[p].file_hash # document_index[other].file_hash)
                 => Cached(other)']_vars

(* ---------------- properties: entries of equal similarity ---------------- *)
\* the stored rows a query may return: those of the filter type
PassesFilter(q, row) ==
  q.filter_type = "" \/ DocType(doc_metadata[row]) = q.filter_type

ReturnedRows(q) == {RowOf(q.results[r]) : r \in 1..Len(q.results)}

\* results of equal similarity are in index order, and a row left out has no
\* returned row of the same similarity behind it
TiesInIndexOrder(q) ==
  /\ \A r, t \in 1..Len(q.results) :
       (r < t /\ q.results[r].similarity = q.results[t].similarity)
         => RowOf(q.results[r]) < RowOf(q.results[t])
  /\ \A r \in 1..Len(q.results) :
       \A row \in (1..Len(documents)) \ ReturnedRows(q) :
         (PassesFilter(q, row) /\ EntrySimilarity(q, row) = q.results[r].similarity)
           => RowOf(q.results[r]) < row

\* C32: when several stored entries have the same similarity to the query,
\* query ranks them in index order: the entry inserted first comes before
\* those inserted later and is the one kept when the top_k cut falls among them.
C32_TiesInIndexOrder ==
  [][(query_result'.serial # query_result.serial /\ IndexAligned)
       => TiesInIndexOrder(query_result')]_vars

\* two entries of equal similarity, the one inserted later ranked first
LaterEntryFirst ==
  /\ query_result.called
  /\ IndexAligned
  /\ Len(query_result.results) = 2
  /\ query_result.results[1].similarity = query_result.results[2].similarity
  /\ RowOf(query_result.results[1]) > RowOf(query_result.results[2])

\* the cut falls among entries of equal similarity and keeps the one inserted last
LaterEntryKept ==
  /\ query_result.called
  /\ IndexAligned
  /\ query_result.filter_type = ""
  /\ Len(documents) = 3
  /\ \A row \in 1..3 : EntrySimilarity(query_result, row) = 1
  /\ ReturnedRows(query_result) = {3}

(* ---------------- properties: the containers by position ---------------- *)
\* the texts, metadata and ids are aligned: they are extended together
TextsMetadataIdsAligned ==
  /\ Len(doc_metadata) = Len(documents)
  /\ Len(document_ids) = Len(documents)
  /\ \A i \in 1..Len(documents) :
       /\ [text |-> documents[i], metadata |-> doc_metadata[i]] \in IndexEntries
       /\ document_ids[i] = DocId(i - 1)

\* every result carries the text, metadata and id of one row, and the
\* similarity computed for the text of that row
ResultsBelongToEntry(q) ==
  \A r \in 1..Len(q.results) :
    \E row \in 1..Len(documents) :
      /\ q.results[r].id = document_ids[row]
      /\ q.results[r].text = documents[row]
      /\ q.results[r].metadata = doc_metadata[row]
      /\ q.results[r].similarity = EntrySimilarity(q, row)

\* C37: in every reachable state the containers are aligned by position (the
\* i-th embedding row encodes the i-th text, the i-th metadata belongs to it,
\* the i-th id is doc_i), so a query result's text, metadata and id belong to
\* the entry whose similarity was computed.
C37_AlignedByPosition ==
  /\ TextsMetadataIdsAligned
  /\ IndexAligned
  /\ ResultsBelongToEntry(query_result)

\* no add has failed so far: every text has its embedding row
AlignedWhileNoAddFailed ==
  /\ TextsMetadataIdsAligned
  /\ IndexAligned => ResultsBelongToEntry(query_result)

\* a result that carries the text of one entry and the similarity of another
ResultOfAnotherEntry ==
  /\ query_result.called
  /\ Len(documents) = 2
  /\ Len(doc_embeddings) = 1
  /\ ~ResultsBelongToEntry(query_result)

(* ---------------- properties: the content-filter fallback ---------------- *)
\* the first of the keys whose backend answers; "" when none does
FirstGood(keys, good) ==
  IF \E i \in 1..Len(keys) : keys[i] \in good
  THEN keys[CHOOSE i \in 1..Len(keys) :
              /\ keys[i] \in good
              /\ \A j \in 1..(i - 1) : keys[j] \notin good]
  ELSE ""

\* the keys of the registry's remote models before those of its local models
RemoteBeforeLocal(l, keys) ==
  \A i, j \in 1..Len(keys) :
    (i < j /\ HasKey(l.model_manager.available_models.remote, keys[j])
           /\ ~HasKey(l.model_manager.available_models.local, keys[j]))
      => HasKey(l.model_manager.available_models.remote, keys[i])

\* generate on l whose remote backend rejected the prompt with a content-filter
\* error: call is the record of the call, after is the interface it leaves
FallbackContract(l, after, call, good) ==
  /\ call.raised = ""
  /\ \A i \in 1..Len(fallback_models(l)) :
       fallback_models(l)[i] # l.current_backend.key
  /\ RemoteBeforeLocal(l, fallback_models(l))
  /\ FirstGood(fallback_models(l), good) # ""
       => /\ call.result.content # ""
          /\ call.result.error = ""
          /\ call.result.model_key = FirstGood(fallback_models(l), good)
          /\ after.current_backend.key = FirstGood(fallback_models(l), good)
  /\ FirstGood(fallback_models(l), good) = ""
       => /\ call.result.content = ""
          /\ call.result.error # ""
          /\ after.current_backend = l.current_backend

RejectedByContentFilter(good) ==
  /\ llm.current_backend.type = "remote"
  /\ Generate("content_filter", good)

\* C35: when the current remote model rejects a prompt with a content-filter
\* error, generate does not retry that model; it tries the other available
\* models in a fixed order (remote models of another provider than GLM first,
\* then installed local models) and returns the first success; when every
\* fallback fails the backend that was current before the call is current
\* again and an error result is returned.
C35_ContentFilterFallback ==
  [][\A good \in GoodSets :
       RejectedByContentFilter(good)
         => FallbackContract(llm, llm', llm_call', good)]_vars

\* the same as long as reset_stats has not been called
FallbackBeforeReset ==
  [][\A good \in GoodSets :
       (RejectedByContentFilter(good) /\ llm.generation_stats = InitialStatsKeys)
         => FallbackContract(llm, llm', llm_call', good)]_vars

\* the second fallback model answered after the first one failed
SecondFallbackAnswered ==
  /\ llm_call.op = "generate"
  /\ llm_call.before.key = "glm4.5"
  /\ llm_call.result.content # ""
  /\ llm_call.result.model_key = "qwen2.5-7b-local"
  /\ llm.current_backend.key = "qwen2.5-7b-local"

\* every fallback model failed and the backend is the one before the call
FallbacksFailedBackendRestored ==
  /\ llm_call.op = "generate"
  /\ llm_call.before.key = "glm4.5"
  /\ llm_call.result.error = "content filter, fallback failed"
  /\ llm.api_key
  /\ llm.current_backend = llm_call.before

(* ---------------- properties: the records of a batch ---------------- *)
\* the sources of the returned batch that were parsed, not served from the cache
ParsedInBatch ==
  {p \in DOMAIN last_call.futures : last_call.futures[p] = "parsed"}

RecordsInMemory == \A p \in ParsedInBatch : p \in DOMAIN document_index

RecordsInIndexFile ==
  \A p \in ParsedInBatch : index_file.intact /\ p \in DOMAIN index_file.data

\* C39: after batch_process_documents completes, under every interleaving of
\* its worker threads, the in-memory index and the persisted index file both
\* contain a record for every source that was processed successfully and not
\* served from the cache.
C39_BatchRecordsPersisted ==
  [][ReturnBatch => (RecordsInMemory' /\ RecordsInIndexFile')]_vars

\* the in-memory index alone has the record of every parsed source
BatchRecordsInMemory == [][ReturnBatch => RecordsInMemory']_vars

\* the batch returned, both sources were parsed, and the well-formed index
\* file has the record of one of them only
IndexFileLostRecord ==
  /\ last_call.op = "batch_process_documents"
  /\ workers = <<>>
  /\ Cardinality(ParsedInBatch) = 2
  /\ RecordsInMemory
  /\ index_file.intact
  /\ Cardinality(DOMAIN index_file.data) = 1

(* ---------------- actions: the V1 LLM interface ---------------- *)
\* the contents a successful API call returns: a plain sentence, nothing, a
\* sentence of the model that starts with "抱歉", and an answer of two lines
\* whose first line repeats the prompt's "重写..." label
Contents ==
  {<<"w">>, <<>>, <<Apology, "w">>,
   <<" ", RewritePrefix, "w", "nl", " ", "w", " ">>}

ApiResponses ==
  {FailedResponse(kind) : kind \in ApiFailures} \cup {OkResponse(c) : c \in Contents}

CamelResponses == {CamelRaised, OkResponse(<<"w">>)}

\* the query handed to _query_rewriting and _hyde_generation
UserQuery == <<"q">>

\* EnhancedLLMInterface(api_key, config); _initialize_camel sets camel_available
CreateInterfaceV1(max_retries, camel_available) ==
  /\ ~llm_v1.created
  /\ llm_v1' = [created |-> TRUE, max_retries |-> max_retries,
                camel_available |-> camel_available]
  /\ UNCHANGED <<programVars, llmVars, mode_call, v1_call, serverVars, deep>>

\* a call that runs llm.generate once and derives the retrieval probe from it
CallV1(op, query_text, camel_response, responses, r, probe) ==
  /\ llm_v1' = r.llm
  /\ v1_call' = [op |-> op, query_text |-> query_text,
                 camel_available |-> llm_v1.camel_available,
                 camel_response |-> camel_response, responses |-> responses,
                 attempts |-> r.attempts, text |-> r.text, probe |-> probe]
  /\ UNCHANGED <<programVars, llmVars, mode_call, serverVars, deep>>

GenerateV1(camel_response, responses) ==
  /\ llm_v1.created
  /\ v1_call.op = "none"
  /\ \E r \in {generate_v1_interface(llm_v1, camel_response, responses)} :
       CallV1("generate", <<>>, camel_response, responses, r, <<>>)

QueryRewriting(query_text, camel_response, responses) ==
  /\ llm_v1.created
  /\ v1_call.op = "none"
  /\ \E r \in {generate_v1_interface(llm_v1, camel_response, responses)} :
       CallV1("query_rewriting", query_text, camel_response, responses, r,
              query_rewriting(query_text, r.text))

HydeGeneration(query_text, camel_response, responses) ==
  /\ llm_v1.created
  /\ v1_call.op = "none"
  /\ \E r \in {generate_v1_interface(llm_v1, camel_response, responses)} :
       CallV1("hyde_generation", query_text, camel_response, responses, r,
              hyde_generation(query_text, r.text))

\* the caller goes on with what the call returned: _deep_retrieval queries the
\* index with the probe, the user interface shows the generated text
UseGeneratedText ==
  /\ v1_call.op # "none"
  /\ v1_call' = NoV1Call
  /\ UNCHANGED <<programVars, llmVars, mode_call, llm_v1, serverVars, deep>>

\* what the CAMEL model and the API do during one call
CamelInputs == IF llm_v1.camel_available THEN CamelResponses ELSE {CamelRaised}
ApiInputs == [1..llm_v1.max_retries -> ApiResponses]

NextV1 ==
  \/ \E max_retries \in 0..MaxRetries, camel_available \in BOOLEAN :
       CreateInterfaceV1(max_retries, camel_available)
  \/ \E c \in CamelInputs, responses \in ApiInputs : GenerateV1(c, responses)
  \/ \E c \in CamelInputs, responses \in ApiInputs :
       QueryRewriting(UserQuery, c, responses)
  \/ \E c \in CamelInputs, responses \in ApiInputs :
       HydeGeneration(UserQuery, c, responses)
  \/ UseGeneratedText

SpecV1 == InitWith(InitFiles, {TRUE}) /\ [][NextV1]_vars

(* ---------------- properties: the V1 LLM interface ---------------- *)
\* the first attempt the API answered, 0 when it answered none
FirstSuccess(responses) ==
  IF \E i \in 1..Len(responses) : responses[i].kind = "ok"
  THEN CHOOSE i \in 1..Len(responses) :
         /\ responses[i].kind = "ok"
         /\ \A j \in 1..(i - 1) : responses[j].kind # "ok"
  ELSE 0

CamelAnswered(call) == call.camel_available /\ call.camel_response.kind = "ok"

\* neither the CAMEL model nor any API attempt answered
GenerationFailed(call) == ~CamelAnswered(call) /\ FirstSuccess(call.responses) = 0

\* C34: a generate call of the V1 interface makes at most max_retries API
\* attempts, stops at the first successful one, and after the last failed
\* attempt returns a message that starts with the apology marker; query
\* rewriting and HyDE generation recognise that outcome and use the original
\* query, never the failure message, as the retrieval probe.
C34_RetriesAndFallback ==
  v1_call.op # "none"
    => /\ v1_call.attempts <= llm_v1.max_retries
       /\ (~CamelAnswered(v1_call) /\ FirstSuccess(v1_call.responses) # 0)
            => /\ v1_call.attempts = FirstSuccess(v1_call.responses)
               /\ v1_call.text = v1_call.responses[v1_call.attempts].content
       /\ GenerationFailed(v1_call)
            => /\ v1_call.attempts = llm_v1.max_retries
               /\ StartsWith(v1_call.text, Apology)
               /\ v1_call.op \in {"query_rewriting", "hyde_generation"}
                    => /\ v1_call.probe = v1_call.query_text
                       /\ v1_call.probe # v1_call.text

\* three attempts failed and HyDE generation returned the query it was given
C34_Witness ==
  /\ v1_call.op = "hyde_generation"
  /\ llm_v1.max_retries = 3
  /\ v1_call.attempts = 3
  /\ GenerationFailed(v1_call)
  /\ StartsWith(v1_call.text, Apology)
  /\ v1_call.probe = UserQuery

\* the second attempt answered and query rewriting took the second line
SecondAttemptAnswered ==
  /\ v1_call.op = "query_rewriting"
  /\ llm_v1.max_retries = 3
  /\ v1_call.attempts = 2
  /\ v1_call.probe = <<"w">>
  /\ Len(v1_call.text) > 1

\* the CAMEL model raised and the API answered the call
CamelFellBackToApi ==
  /\ v1_call.op = "generate"
  /\ v1_call.camel_available
  /\ ~llm_v1.camel_available
  /\ v1_call.attempts = 1

(* ---------------- api_server_v2: search tasks ---------------- *)
\* str(uuid.uuid4()): a fresh id for every search
SearchId(n) == "search_" \o ToString(n)
SearchIds == {SearchId(n) : n \in 1..MaxSearches}

\* SearchTask(search_id, query, model, mode); error "" is None
SearchTask(search_id, model) ==
  [search_id |-> search_id, model |-> model, status |-> "pending", progress |-> 0,
   error |-> ""]

\* format_search_result(result, search_task)
format_search_result(result, search_task) ==
  [answer |-> result, model |-> search_task.model]

\* start_search: the task is stored and its background thread is started
StartSearch(model) ==
  /\ Cardinality(DOMAIN search_tasks) < MaxSearches
  /\ \E search_id \in {SearchId(Cardinality(DOMAIN search_tasks) + 1)} :
       /\ search_tasks' = Put(search_tasks, search_id, SearchTask(search_id, model))
       /\ search_threads' = Put(search_threads, search_id,
                                [pc |-> "set_running", result |-> ""])
  /\ UNCHANGED <<programVars, llmVars, mode_call, v1Vars, search_results, request, deep>>

\* one statement of execute_search_task in the thread of search_id
ThreadStep(search_id, pc, task, next_pc, result) ==
  /\ search_id \in DOMAIN search_threads
  /\ search_threads[search_id].pc = pc
  /\ search_tasks' = [search_tasks EXCEPT ![search_id] = task]
  /\ search_threads' = [search_threads EXCEPT ![search_id] =
                          [pc |-> next_pc, result |-> result]]
  /\ UNCHANGED <<programVars, llmVars, mode_call, v1Vars, request, deep>>

\* search_task.status = "running" and the first progress report
SetRunning(search_id) ==
  /\ ThreadStep(search_id, "set_running",
                [search_tasks[search_id] EXCEPT !.status = "running", !.progress = 10],
                "switch_model", "")
  /\ UNCHANGED search_results

\* the model of the request is set when one is given; a failed switch ends the task
SwitchModel(search_id, switched) ==
  /\ search_id \in DOMAIN search_tasks
  /\ search_tasks[search_id].model = "" => switched
  /\ IF switched
     THEN ThreadStep(search_id, "switch_model",
                     [search_tasks[search_id] EXCEPT !.progress = 80], "search", "")
     ELSE ThreadStep(search_id, "switch_model",
                     [search_tasks[search_id] EXCEPT
                        !.status = "failed", !.error = "model switch failed"],
                     "done", "")
  /\ UNCHANGED search_results

\* enhanced_query_v2 or direct_llm_query: a result dict with or without 'error'
ExecuteSearch(search_id, result) ==
  /\ search_id \in DOMAIN search_tasks
  /\ ThreadStep(search_id, "search", search_tasks[search_id], "handle_result", result)
  /\ UNCHANGED search_results

\* if 'error' in result: search_task.status = "failed"
SetFailed(search_id) ==
  /\ search_id \in DOMAIN search_threads
  /\ search_threads[search_id].result = "error"
  /\ ThreadStep(search_id, "handle_result",
                [search_tasks[search_id] EXCEPT
                   !.status = "failed", !.error = "search failed"],
                "done", "error")
  /\ UNCHANGED search_results

\* else: search_task.status = "completed"
SetCompleted(search_id) ==
  /\ search_id \in DOMAIN search_threads
  /\ search_threads[search_id].result = "answer"
  /\ ThreadStep(search_id, "handle_result",
                [search_tasks[search_id] EXCEPT !.status = "completed"],
                "set_progress", "answer")
  /\ UNCHANGED search_results

\* search_task.progress = 100 and the message
SetProgress(search_id) ==
  /\ search_id \in DOMAIN search_tasks
  /\ ThreadStep(search_id, "set_progress",
                [search_tasks[search_id] EXCEPT !.progress = 100],
                "store_result", "answer")
  /\ UNCHANGED search_results

\* search_results[search_task.search_id] = format_search_result(result, search_task)
StoreResult(search_id) ==
  /\ search_id \in DOMAIN search_tasks
  /\ ThreadStep(search_id, "store_result", search_tasks[search_id], "done", "answer")
  /\ search_results' =
       Put(search_results, search_id,
           format_search_result(search_threads[search_id].result,
                                search_tasks[search_id]))

\* the response of get_search_results
Respond(search_id, code, error) ==
  [pc |-> "responded", search_id |-> search_id, code |-> code, error |-> error]

RequestStep(pc, after) ==
  /\ request.pc = pc
  /\ request' = after
  /\ UNCHANGED <<programVars, llmVars, mode_call, v1Vars, search_tasks, search_results,
                 search_threads, deep>>

\* get_search_results(search_id): if search_id not in search_tasks
GetSearchResults(search_id) ==
  /\ request.pc \in {"idle", "responded"}
  /\ RequestStep(request.pc,
                 IF search_id \notin DOMAIN search_tasks
                 THEN Respond(search_id, 404, "no such search")
                 ELSE [NoRequest EXCEPT !.pc = "check_failed",
                                        !.search_id = search_id])

\* if search_task.status == "failed"
CheckFailed ==
  RequestStep("check_failed",
              IF search_tasks[request.search_id].status = "failed"
              THEN Respond(request.search_id, 500, "search failed")
              ELSE [request EXCEPT !.pc = "check_completed"])

\* if search_task.status != "completed"
CheckCompleted ==
  RequestStep("check_completed",
              IF search_tasks[request.search_id].status # "completed"
              THEN Respond(request.search_id, 202, "not completed")
              ELSE [request EXCEPT !.pc = "read_results"])

\* if search_id not in search_results, else the stored result is returned
ReadResults ==
  RequestStep("read_results",
              IF request.search_id \notin DOMAIN search_results
              THEN Respond(request.search_id, 500, "results unavailable")
              ELSE Respond(request.search_id, 200, ""))

\* the model named in a search request ("" is none)
RequestedModels == {"", "glm4.5"}

NextServer ==
  \/ \E model \in RequestedModels : StartSearch(model)
  \/ \E search_id \in SearchIds : SetRunning(search_id)
  \/ \E search_id \in SearchIds, switched \in BOOLEAN : SwitchModel(search_id, switched)
  \/ \E search_id \in SearchIds, result \in {"answer", "error"} :
       ExecuteSearch(search_id, result)
  \/ \E search_id \in SearchIds : SetFailed(search_id)
  \/ \E search_id \in SearchIds : SetCompleted(search_id)
  \/ \E search_id \in SearchIds : SetProgress(search_id)
  \/ \E search_id \in SearchIds : StoreResult(search_id)
  \/ \E search_id \in SearchIds : GetSearchResults(search_id)
  \/ CheckFailed
  \/ CheckCompleted
  \/ ReadResults

SpecServer == InitWith(InitFiles, {TRUE}) /\ [][NextServer]_vars

(* ---------------- properties: search tasks ---------------- *)
ResultStored(search_id) == search_id \in DOMAIN search_results

\* C40: whenever a search task is observed with status completed its formatted
\* result is already stored: a results request that runs concurrently with
\* the background search thread never finds a completed task whose result is
\* missing.
C40_CompletedHasResult ==
  /\ \A search_id \in DOMAIN search_tasks :
       search_tasks[search_id].status = "completed" => ResultStored(search_id)
  /\ request.pc = "responded" => request.error # "results unavailable"

\* once the thread of a completed task has ended, the result is stored, and a
\* request answered with the data found the task completed
CompletedHasResultAfterThread ==
  /\ \A search_id \in DOMAIN search_tasks :
       (search_tasks[search_id].status = "completed"
          /\ search_threads[search_id].pc = "done") => ResultStored(search_id)
  /\ (request.pc = "responded" /\ request.code = 200)
       => /\ search_tasks[request.search_id].status = "completed"
          /\ ResultStored(request.search_id)

\* a results request was answered 'results unavailable' for a completed task
\* whose thread had not stored the result yet
ResultsUnavailableSeen ==
  /\ request.pc = "responded"
  /\ request.error = "results unavailable"
  /\ search_tasks[request.search_id].status = "completed"
  /\ search_threads[request.search_id].pc \in {"set_progress", "store_result"}

(* ---------------- a deep retrieval that runs while the index changes ---------------- *)
\* the sources of setup, add and remove while a deep retrieval may be running
DeepSourceLists == {<<"a.txt", "b.txt">>, <<"b.txt">>, <<"t.csv">>}
DeepRemoveLists == {<<"a.txt">>, <<"b.txt">>}

\* the query, its rewriting and the HyDE text are similar to every stored text
DeepEnv ==
  Env(SimFavour(ModeTexts), SimFavour(ModeTexts), SimFavour(ModeTexts), FALSE, TRUE,
      <<"ok", "ok", "ok">>, "ok")

DeepSetup(sources) == SetupKnowledgeBase(sources, FALSE, TRUE)

DeepAdd(new_sources) == AddToKnowledgeBase(new_sources, TRUE)

\* a remove that waits until no deep retrieval is running
RemoveWhenNoRetrievalRuns(sources_to_remove) ==
  /\ deep.pc \in {"idle", "done"}
  /\ RemoveFromKnowledgeBase(sources_to_remove, TRUE)

\* remove_documents_from_knowledge_base, which rebuilds the index when a
\* source is left
RebuildingRemove(sources_to_remove) ==
  RemoveFromKnowledgeBase(sources_to_remove, TRUE)

DeepStep(pc, after) ==
  /\ deep.pc = pc
  /\ deep' = after
  /\ UNCHANGED <<programVars, llmVars, mode_call, v1Vars, serverVars>>

\* _deep_retrieval is entered: rewriting and HyDE are done, all_results = []
StartDeepRetrieval ==
  /\ knowledge_base_initialized
  /\ deep.runs < MaxDeepRuns
  /\ DeepStep("idle", [pc |-> "query_1", runs |-> deep.runs + 1,
                       all_results |-> <<>>, final_docs |-> <<>>])

\* the n-th self.vector_retriever.query(...) and the append of its results
DeepQueryStep(n) ==
  DeepStep("query_" \o ToString(n),
           [deep EXCEPT
              !.pc = IF n < 5 THEN "query_" \o ToString(n + 1) ELSE "fuse",
              !.all_results =
                 IF n <= 3
                 THEN Append(deep.all_results,
                             Retrieve(VI, DeepEnv, DeepQueries("rewritten", "hyde")[n]))
                 ELSE AppendIfAny(deep.all_results,
                                  Retrieve(VI, DeepEnv,
                                           DeepQueries("rewritten", "hyde")[n]))])

\* final_docs = self._rrf_fusion(all_results)
FuseResults ==
  DeepStep("fuse", [deep EXCEPT !.pc = "done",
                                !.final_docs = rrf_fusion(deep.all_results, RrfK)])

NextDeep ==
  \/ \E sources \in DeepSourceLists : DeepSetup(sources)
  \/ \E sources \in DeepSourceLists : DeepAdd(sources)
  \/ \E sources \in DeepRemoveLists : RebuildingRemove(sources)
  \/ StartDeepRetrieval
  \/ \E n \in 1..5 : DeepQueryStep(n)
  \/ FuseResults

SpecDeep == InitWith(InitFilesModes, {TRUE}) /\ [][NextDeep]_vars

(* ---------------- properties: deep retrieval and index generations ---------------- *)
\* the retrieval has issued a query and has not issued all of them
DeepBetweenQueries == deep.pc \in {"query_2", "query_3", "query_4", "query_5"}

\* the score the entries with this id add up to over all result lists
RECURSIVE ContributionsOf(_, _, _)
ContributionsOf(id, all_results, i) ==
  IF i > Len(all_results) THEN 0
  ELSE LET results == all_results[i]
           ranks == {rank \in 1..Len(results) : results[rank].id = id}
       IN (IF ranks = {} THEN 0
           ELSE Reciprocal(RrfK, (CHOOSE rank \in ranks : TRUE) - 1))
          + ContributionsOf(id, all_results, i + 1)

\* two result lists hold entries with the same id and different texts
SameIdDifferentChunks(all_results, id) ==
  \E i, j \in 1..Len(all_results) :
    \E m \in 1..Len(all_results[i]), n \in 1..Len(all_results[j]) :
      /\ all_results[i][m].id = id
      /\ all_results[j][n].id = id
      /\ all_results[i][m].text # all_results[j][n].text

AddBetweenQueries ==
  /\ deep.pc = "done"
  /\ kb_call.op = "add"
  /\ Len(deep.all_results) >= 2
  /\ \E n \in 1..Len(deep.all_results[2]) :
       \A m \in 1..Len(deep.all_results[1]) :
         deep.all_results[1][m].id # deep.all_results[2][n].id
============================================================================
